---- MODULE Spec2Model ----
(***************************************************************************)
(* The signal-to-execution pipeline of the spot-trading bot:               *)
(*   - app/strategy/router.py   StrategyRouter (queue consumer, trade      *)
(*                              lock, cooldown, buy/sell execution)        *)
(*   - app/strategy/scalping.py ScalpingSignalGenerator (scanner)          *)
(*   - app/trend/aggregator.py  TrendAggregator (second queue producer)    *)
(*   - app/state/store.py       StateStore (balances, order books, P&L)    *)
(*   - app/risk/engine.py       RiskEngine (kill switch)                   *)
(*   - app/exchange/bybit_client.py, app/utils/retry.py (order request)    *)
(*   - app/utils/typing.py      Signal (validated message)                 *)
(*                                                                         *)
(* asyncio is cooperative: code between two awaits is one atomic step, so  *)
(* each action below is the code of one task from one suspension point to  *)
(* the next.  The asyncio.Lock of the StateStore is never held across an   *)
(* await, so `async with self._lock` never suspends and the store's        *)
(* methods are atomic.                                                     *)
(*                                                                         *)
(* Amounts are integers (USD, coin units); time is in seconds.  A timed    *)
(* sleep (2 s, 5 s) is an await that may complete at any later step.       *)
(***************************************************************************)
EXTENDS Integers, Sequences, FiniteSets, TLC

VARIABLES
    status,                \* SystemState.status
    strategy_task,         \* StrategyRouter._strategy_task: "none" (None), or the
                           \* task's state "running" | "cancelling" | "done"
    signal_gen_task,       \* StrategyRouter._signal_gen_task, likewise
    position_monitor_task, \* StrategyRouter._position_monitor_task, likewise
    stop_pc,               \* where a stop() call is suspended: "idle" (none is),
                           \* "gather" (in asyncio.gather), "resume" (the
                           \* gather is complete and stop() is to be resumed)
    orphan_tasks,          \* the runs (consumer, scanner and exit monitor of
                           \* one start()) whose loops are alive while no
                           \* handle of the router refers to them
    pc,                    \* where the consumer task is suspended
    signal,                \* the signal the consumer is executing
    requests,              \* order-create requests sent for that signal
    trade_in_progress,     \* StrategyRouter._trade_in_progress
    pending_symbol,        \* StrategyRouter._pending_symbol
    last_trade_times,      \* StrategyRouter._last_trade_times
    signal_queue,          \* StrategyRouter._signal_queue
    unlock_timers,         \* pending _unlock_after_delay tasks
    balances,              \* StateStore._balances (wallet_balance per coin)
    orderbooks,            \* StateStore._orderbooks (best bid, 0 = none)
    total_equity,          \* SystemState.total_equity
    available_balance,     \* SystemState.available_balance
    initial_total_equity,  \* StateStore._initial_total_equity
    pnl_day,               \* SystemState.pnl_day
    positions,             \* SystemState.active_positions, per symbol
    recent_errors,         \* StateStore._recent_errors_deque, newest first
    config,                \* RiskEngine.config
    now,                   \* wall clock (datetime.utcnow), seconds
    kill_seen,             \* history: the consumer saw the kill switch since the last reset
    exit_checks,           \* history: per symbol, how the last exit-monitor cycle
                           \* left the position, and at which price
    order_times,           \* history: per symbol, when the last BUY order was sent
                           \* and when the last order was accepted
    last,                  \* history: the last operation of the router (evaluation,
                           \* order response, unlock, start, stop, failed producer)
    balance_data,          \* update_wallet_balance: the response of
                           \* get_wallet_balance that the poller holds
    current_equity,        \* history: the argument of the last call of
                           \* reset_daily_state, NoEquity before the first
    imbalance,             \* StateStore._orderbooks: per symbol, the side the
                           \* book leans to, "bid" | "ask" | "flat"
    recent_trades,         \* StateStore._recent_trades_deque, newest first
    retry,                 \* a call of an async_retry wrapper: its arguments,
                           \* its locals and what it has done so far
    risk_config,           \* SystemState.risk_config: << >> (None) or << c >>
    risk_request           \* history: the body of the last POST /config/risk,
                           \* << >> before the first

vars ==
    << status, strategy_task, signal_gen_task, position_monitor_task, stop_pc,
       orphan_tasks,
       pc, signal, requests, trade_in_progress, pending_symbol,
       last_trade_times, signal_queue, unlock_timers, balances, orderbooks,
       total_equity, available_balance, initial_total_equity, pnl_day,
       positions, recent_errors, config, now, kill_seen, exit_checks,
       order_times, last, balance_data, current_equity, imbalance,
       recent_trades, retry, risk_config, risk_request >>

\* the state around the router: the wallet poller, the daily reset task, the
\* books' imbalance, the trade log, a retried call and the control API
serviceVars ==
    << balance_data, current_equity, imbalance, recent_trades, retry,
       risk_config, risk_request >>

taskVars ==
    << strategy_task, signal_gen_task, position_monitor_task, stop_pc,
       orphan_tasks >>

routerVars ==
    << status, taskVars, pc, signal, requests, trade_in_progress,
       pending_symbol, last_trade_times, unlock_timers, order_times >>

\* the state of the StateStore and the configuration of the RiskEngine
storeVars ==
    << balances, orderbooks, total_equity, available_balance,
       initial_total_equity, pnl_day, positions, recent_errors, config >>

----------------------------------------------------------------------------
(* Bounds of the model *)

MaxQueue ==
    2

MaxTimers ==
    2

MaxTime ==
    60

(* Inputs the environment draws from *)

Universe ==
    << "BTCUSDT", "ETHUSDT" >>

Symbols ==
    { Universe[i] : i \in 1..Len(Universe) }

WalletLevels ==
    0..3

EquityLevels ==
    {700, 1000}

AvailableLevels ==
    {0, 150}

TickSeconds ==
    {30}

----------------------------------------------------------------------------
(* Program constants *)

TRADE_COOLDOWN_SECONDS ==
    60

MIN_SELL_VALUE_USD ==
    5

DUST_THRESHOLD_USD ==
    10

MIN_ASSET_VALUE_USD ==
    10

RETRY_ATTEMPTS ==
    3

DAY_LOSS_LIMIT_USD ==
    200

DAY_PROFIT_TARGET_PCT ==
    1

RISK_PER_TRADE_PCT ==
    95

MAX_ACTIVE_SYMBOLS ==
    5

MIN_TRADING_BUFFER_USD ==
    10

DEFAULT_TP_BPS ==
    50

DEFAULT_SL_BPS ==
    25

TRAILING_SL_BPS ==
    30

NoBook ==
    0

\* an order book whose best bid entry cannot be read as a price
MalformedBook ==
    -1

\* the capacity of the recent-errors deque (max_events)
MaxEvents ==
    2

NoSymbol ==
    "none"

NoTime ==
    -1

----------------------------------------------------------------------------
(* Signal: app/utils/typing.py *)

SignalTypes ==
    {"scalping", "trend", "combined"}

NoSignal ==
    [symbol |-> NoSymbol, side |-> "none", signal_type |-> "none"]

\* pydantic validation of Signal(...): signal_type must be one of the Literal
\* values and the required field strength must be given
SignalValid(signal_type, has_strength) ==
    signal_type \in SignalTypes /\ has_strength

MakeSignal(symbol, side, signal_type) ==
    [symbol |-> symbol, side |-> side, signal_type |-> signal_type]

\* symbol.replace("USDT", "")
\* RiskConfig as the engine builds it from the settings (risk_per_trade in
\* percent)
_load_config_from_settings ==
    [day_loss_limit_usd |-> DAY_LOSS_LIMIT_USD,
     day_profit_target_pct |-> DAY_PROFIT_TARGET_PCT,
     risk_per_trade |-> RISK_PER_TRADE_PCT,
     max_active_symbols |-> MAX_ACTIVE_SYMBOLS,
     default_tp_bps |-> DEFAULT_TP_BPS,
     default_sl_bps |-> DEFAULT_SL_BPS,
     trailing_sl_bps |-> TRAILING_SL_BPS]

\* the entries of active_positions: none for the symbol, the dict that
\* update_wallet_balance builds for a held coin, or a Position
NoPosition ==
    [kind |-> "none", entry_price |-> 0, highest_price_since_entry |-> 0]

HoldingEntry ==
    [kind |-> "dict", entry_price |-> 0, highest_price_since_entry |-> 0]

\* Position(symbol=..., entry_price=avgPrice, highest_price_since_entry=avgPrice)
Position(symbol, avgPrice) ==
    [symbol |-> symbol,
     record |-> [kind |-> "position", entry_price |-> avgPrice,
                 highest_price_since_entry |-> avgPrice]]

\* state_store.add_or_update_position(position): the record of the symbol
\* is replaced
add_or_update_position(position) ==
    positions' = [positions EXCEPT ![position.symbol] = position.record]

NoCheck ==
    [outcome |-> "none", price |-> NoBook]

BaseCurrency(symbol) ==
    CASE symbol = "BTCUSDT" -> "BTC"
      [] symbol = "ETHUSDT" -> "ETH"
      [] OTHER -> symbol

Coins ==
    { BaseCurrency(s) : s \in Symbols }

\* an operation of the router; notional is the notional of the BUY order
\* request it sent, 0 otherwise; avgPrice is the fill price it recorded, 0
\* otherwise
Op(name, sig) ==
    [op |-> name, signal |-> sig, notional |-> 0, avgPrice |-> 0]

----------------------------------------------------------------------------
(* StateStore and RiskEngine reads *)

\* balance.wallet_balance, 0 when get_balance returns None
WalletBalance(symbol) ==
    balances[BaseCurrency(symbol)]

\* float(orderbook['b'][0][0])
CurrentPrice(symbol) ==
    orderbooks[symbol]

AssetValueUsd(symbol) ==
    WalletBalance(symbol) * CurrentPrice(symbol)

HeldSymbols ==
    { c \in Coins : balances[c] > 0 }

\* a loss check that lets a loss of exactly the limit pass
is_globally_ok_strict_loss ==
    IF pnl_day < -config.day_loss_limit_usd
    THEN FALSE
    ELSE IF total_equity > 0
            /\ pnl_day * 100 >= total_equity * config.day_profit_target_pct
         THEN FALSE
         ELSE TRUE

\* RiskEngine.is_globally_ok_to_trade.  On a breach with status "running" it
\* calls state_store.add_error(...) without await, from a synchronous method:
\* the coroutine never runs and the recent-errors deque is not written
is_globally_ok_to_trade ==
    IF pnl_day <= -config.day_loss_limit_usd
    THEN FALSE
    ELSE IF total_equity > 0
            /\ pnl_day * 100 >= total_equity * config.day_profit_target_pct
         THEN FALSE
         ELSE TRUE

\* an admission that counts the held symbols against a BUY of a symbol that
\* is held as well
is_trade_allowed_any_symbol(symbol) ==
    IF ~is_globally_ok_to_trade
    THEN [allow |-> FALSE, reason |-> "daily_limit"]
    ELSE IF Cardinality(HeldSymbols) >= config.max_active_symbols
    THEN [allow |-> FALSE, reason |-> "max_active_symbols"]
    ELSE [allow |-> TRUE, reason |-> "ok"]

\* is_trade_allowed(symbol, Side.BUY): the decision and its reason
is_trade_allowed(symbol) ==
    IF ~is_globally_ok_to_trade
    THEN [allow |-> FALSE, reason |-> "daily_limit"]
    ELSE IF /\ Cardinality(HeldSymbols) >= config.max_active_symbols
            /\ BaseCurrency(symbol) \notin HeldSymbols
    THEN [allow |-> FALSE, reason |-> "max_active_symbols"]
    ELSE [allow |-> TRUE, reason |-> "ok"]

MinNotional(symbol) ==
    CASE symbol = "BTCUSDT" -> 100
      [] symbol = "ETHUSDT" -> 20
      [] OTHER -> 0

Min(a, b) ==
    IF a <= b THEN a ELSE b

\* a size that is not capped by the available balance
calculate_notional_size_uncapped(symbol) ==
    LET size == (total_equity * config.risk_per_trade) \div 100
    IN  IF available_balance < MIN_TRADING_BUFFER_USD \/ size < MinNotional(symbol)
        THEN 0
        ELSE size

\* calculate_notional_size(symbol), in whole USD
calculate_notional_size(symbol) ==
    LET size == Min((total_equity * config.risk_per_trade) \div 100, available_balance)
    IN  IF available_balance < MIN_TRADING_BUFFER_USD \/ size < MinNotional(symbol)
        THEN 0
        ELSE size

\* a task that was cancelled runs no step but its termination
Runs(task) ==
    task = "running"

\* self._strategy_task is not None and not self._strategy_task.done()
is_running ==
    strategy_task \notin {"none", "done"}

\* a router without cooldown
NeverInCooldown(symbol) ==
    FALSE

_is_in_cooldown(symbol) ==
    /\ last_trade_times[symbol] # NoTime
    /\ now - last_trade_times[symbol] < TRADE_COOLDOWN_SECONDS

----------------------------------------------------------------------------
(* The central queue: asyncio.Queue, put_nowait / get *)

\* a stack in place of the queue: the newest signal is served first
QueuePush(q, sig) ==
    << sig >> \o q

QueuePut(q, sig) ==
    Append(q, sig)

QueueGet(q) ==
    [signal |-> Head(q), queue |-> Tail(q)]

----------------------------------------------------------------------------
(* Producers *)

Pressures ==
    {"bid", "ask", "flat"}

\* a scanner for which no asset is held
never_asset_held(symbol) ==
    FALSE

\* is_asset_held of check_and_send_signal: the coin has a balance and its
\* value at the best bid is at least MIN_ASSET_VALUE_USD, or the best bid
\* cannot be read as a price
is_asset_held(symbol) ==
    /\ WalletBalance(symbol) > 0
    /\ orderbooks[symbol] # NoBook
    /\ \/ orderbooks[symbol] = MalformedBook
       \/ AssetValueUsd(symbol) >= MIN_ASSET_VALUE_USD

\* ScalpingSignalGenerator.check_and_send_signal for one symbol, the order
\* book imbalance being an input: a BUY is put on the queue, or the
\* construction of the exit Signal raises (signal_type "scalping_exit", no
\* strength), or nothing happens
check_and_send_signal(q, symbol, pressure) ==
        IF orderbooks[symbol] = NoBook
        THEN [queue |-> q, raised |-> FALSE]
        ELSE IF is_asset_held(symbol)
             THEN IF pressure = "ask"
                  THEN IF SignalValid("scalping_exit", FALSE)
                       THEN [queue |-> QueuePut(q, MakeSignal(symbol, "Sell", "scalping_exit")),
                             raised |-> FALSE]
                       ELSE [queue |-> q, raised |-> TRUE]
                  ELSE [queue |-> q, raised |-> FALSE]
             ELSE IF pressure = "bid"
                  THEN IF SignalValid("scalping", TRUE)
                       THEN [queue |-> QueuePut(q, MakeSignal(symbol, "Buy", "scalping")),
                             raised |-> FALSE]
                       ELSE [queue |-> q, raised |-> TRUE]
                  ELSE [queue |-> q, raised |-> FALSE]

\* one iteration of run_loop: the universe in order, given up at the first
\* exception
RECURSIVE ScanFrom(_, _, _)
ScanFrom(i, q, pressure) ==
    IF i > Len(Universe)
    THEN [queue |-> q, raised |-> FALSE]
    ELSE LET r == check_and_send_signal(q, Universe[i], pressure[Universe[i]])
         IN  IF r.raised THEN r ELSE ScanFrom(i + 1, r.queue, pressure)

\* one iteration of run_loop on books that lean as `pressure` says
ScannerCycleOn(pressure) ==
    /\ Runs(signal_gen_task)
    /\ LET r == ScanFrom(1, signal_queue, pressure)
       IN  /\ r.raised \/ r.queue # signal_queue
           /\ Len(r.queue) <= MaxQueue
           /\ signal_queue' = r.queue
           /\ last' = IF r.raised THEN Op("scan_error", NoSignal) ELSE last
    /\ UNCHANGED << routerVars, storeVars, now, exit_checks, kill_seen, serviceVars >>

\* one iteration of run_loop, whatever the books' imbalance is
ScannerCycle ==
    \E pressure \in [Symbols -> Pressures] : ScannerCycleOn(pressure)

\* one iteration of run_loop on the books as they are
ScannerCycleOnBooks ==
    ScannerCycleOn(imbalance)

\* update_orderbook with a book that leans to another side
UpdateImbalance(symbol, pressure) ==
    /\ imbalance' = [imbalance EXCEPT ![symbol] = pressure]
    /\ imbalance' # imbalance
    /\ UNCHANGED << routerVars, signal_queue, storeVars, now, exit_checks,
                    kill_seen, last, balance_data, current_equity, recent_trades,
                    retry, risk_config, risk_request >>

\* TrendAggregator._generate_and_send_signal, the scored event being an input
TrendSignal(symbol, side) ==
    /\ Len(signal_queue) < MaxQueue
    /\ SignalValid("trend", TRUE)
    /\ signal_queue' = QueuePut(signal_queue, MakeSignal(symbol, side, "trend"))
    /\ UNCHANGED << routerVars, storeVars, now, exit_checks, kill_seen, last, serviceVars >>

\* StrategyRouter._create_exit_signal
_create_exit_signal(q, symbol) ==
    IF SignalValid("exit_monitor", FALSE)
    THEN [queue |-> QueuePut(q, MakeSignal(symbol, "Sell", "exit_monitor")),
          raised |-> FALSE]
    ELSE [queue |-> q, raised |-> TRUE]

\* _position_monitor_loop finding the take profit or the stop loss reached
\* on the Position of `symbol`, whatever the prices are; the exception of
\* _create_exit_signal is caught by the loop and logged
PositionMonitor(symbol) ==
    /\ Runs(position_monitor_task)
    /\ positions[symbol].kind = "position"
    /\ orderbooks[symbol] # NoBook
    /\ Len(signal_queue) < MaxQueue
    /\ LET r == _create_exit_signal(signal_queue, symbol)
       IN  /\ signal_queue' = r.queue
           /\ last' = Op(IF r.raised THEN "exit_signal_error" ELSE "exit_signal",
                         MakeSignal(symbol, "Sell", "exit_monitor"))
    /\ UNCHANGED << routerVars, storeVars, now, exit_checks, kill_seen, serviceVars >>

\* pnl_bps >= config.default_tp_bps, with
\* pnl_bps = ((current_price / entry_price) - 1) * 10000
TakeProfitReached(symbol) ==
    (CurrentPrice(symbol) - positions[symbol].entry_price) * 10000
        >= config.default_tp_bps * positions[symbol].entry_price

\* pnl_bps <= -config.default_sl_bps
StopLossReached(symbol) ==
    (CurrentPrice(symbol) - positions[symbol].entry_price) * 10000
        <= -config.default_sl_bps * positions[symbol].entry_price

\* the body of the monitor's loop for one entry of active_positions, up to
\* the first await: "no_orderbook" and "no_entry_price" go on to the next
\* position, "take_profit" and "stop_loss" call _create_exit_signal,
\* "attribute_error" is `position.symbol` on the dict of
\* update_wallet_balance, and "timeout_error" is the read of
\* config.max_holding_time_seconds, which RiskConfig does not have
CheckPosition(symbol) ==
    IF positions[symbol].kind = "dict"
    THEN "attribute_error"
    ELSE IF orderbooks[symbol] = NoBook
    THEN "no_orderbook"
    ELSE IF positions[symbol].entry_price = 0
    THEN "no_entry_price"
    ELSE IF TakeProfitReached(symbol)
    THEN "take_profit"
    ELSE IF StopLossReached(symbol)
    THEN "stop_loss"
    ELSE "timeout_error"

Checked(symbol, outcome) ==
    [outcome |-> outcome, price |-> CurrentPrice(symbol)]

\* the for loop over active_positions from the i-th entry on: an exception
\* leaves the loop, and the positions after it are not reached in the cycle
RECURSIVE CheckFrom(_, _, _)
CheckFrom(i, q, checks) ==
    IF i > Len(Universe)
    THEN [queue |-> q, checks |-> checks]
    ELSE LET symbol == Universe[i]
             outcome == CheckPosition(symbol)
             r == _create_exit_signal(q, symbol)
             seen == [checks EXCEPT ![symbol] = Checked(symbol, outcome)]
         IN  IF positions[symbol].kind = "none"
             THEN CheckFrom(i + 1, q, [checks EXCEPT ![symbol] = NoCheck])
             ELSE IF outcome \in {"no_orderbook", "no_entry_price"}
             THEN CheckFrom(i + 1, q, seen)
             ELSE IF outcome \in {"take_profit", "stop_loss"} /\ ~r.raised
             THEN CheckFrom(i + 1, r.queue, seen)
             ELSE [queue |-> q, checks |-> seen]

NotReached ==
    [s \in Symbols |->
        IF positions[s].kind = "none"
        THEN NoCheck
        ELSE [outcome |-> "not_reached", price |-> NoBook]]

\* one cycle of _position_monitor_loop over active_positions, after its
\* sleep; an exception is caught by the loop and logged
ExitMonitorCycle ==
    /\ Runs(position_monitor_task)
    /\ \E s \in Symbols : positions[s].kind # "none"
    /\ Len(signal_queue) + Len(Universe) <= MaxQueue
    /\ LET r == CheckFrom(1, signal_queue, NotReached)
       IN  /\ signal_queue' = r.queue
           /\ exit_checks' = r.checks
    /\ last' = Op("exit_monitor_cycle", NoSignal)
    /\ UNCHANGED << routerVars, storeVars, now, kill_seen, serviceVars >>

----------------------------------------------------------------------------
(* StrategyRouter: evaluation *)

\* an evaluation without the two dust thresholds
NeverBelowDust(symbol) ==
    FALSE

NeverHeldAboveDust(symbol) ==
    FALSE

\* the SELL branch: a holding too small to sell
SellBelowDust(symbol) ==
    AssetValueUsd(symbol) < MIN_SELL_VALUE_USD

\* the BUY branch: the asset is held and is not dust to be topped up
HeldAboveDust(symbol) ==
    WalletBalance(symbol) > 0 /\ ~(AssetValueUsd(symbol) < DUST_THRESHOLD_USD)

\* a buy execution that goes on whatever the size is
NeverNoSize(notional_size) ==
    FALSE

\* `if notional_size <= 0: return` at the head of _execute_buy_trade
NoSize(notional_size) ==
    notional_size <= 0

\* _evaluate_signal up to the call of _execute_*_trade: what it decides and
\* whether RiskEngine.is_trade_allowed was called
_evaluate_signal(sig) ==
    LET symbol == sig.symbol
    IN  IF _is_in_cooldown(symbol) /\ sig.signal_type # "exit_monitor"
        THEN [outcome |-> "cooldown", risk |-> FALSE]
        ELSE IF orderbooks[symbol] = NoBook
        THEN [outcome |-> "no_orderbook", risk |-> FALSE]
        ELSE IF orderbooks[symbol] = MalformedBook
        THEN [outcome |-> "evaluate_exception", risk |-> FALSE]
        ELSE IF sig.side = "Sell"
        THEN IF WalletBalance(symbol) > 0
             THEN IF SellBelowDust(symbol)
                  THEN [outcome |-> "sell_dust", risk |-> FALSE]
                  ELSE [outcome |-> "sell", risk |-> FALSE]
             ELSE [outcome |-> "sell_nothing", risk |-> FALSE]
        ELSE IF HeldAboveDust(symbol)
        THEN [outcome |-> "buy_held", risk |-> FALSE]
        ELSE IF is_trade_allowed(symbol).allow
        THEN IF NoSize(calculate_notional_size(symbol))
             THEN [outcome |-> "buy_no_size", risk |-> TRUE]
             ELSE [outcome |-> "buy", risk |-> TRUE]
        ELSE [outcome |-> "buy_rejected_" \o is_trade_allowed(symbol).reason,
              risk |-> TRUE]

Submits(outcome) ==
    outcome \in {"buy", "sell"}

\* StateStore.add_error: appendleft on a deque of maxlen max_events
add_error(error_message) ==
    LET q == << error_message >> \o recent_errors
    IN  IF Len(q) > MaxEvents THEN SubSeq(q, 1, MaxEvents) ELSE q

\* StateStore.add_trade: appendleft on a deque of maxlen max_events
add_trade(trade) ==
    LET q == << trade >> \o recent_trades
    IN  IF Len(q) > MaxEvents THEN SubSeq(q, 1, MaxEvents) ELSE q

\* the entry of the order history for the order of a signal
HistoryEntry(sig) ==
    [symbol |-> sig.symbol, side |-> sig.side]

\* a consumer that never finds trading halted
TradingNeverHalted ==
    FALSE

\* `if not self.risk_engine.is_globally_ok_to_trade():` of _strategy_loop
TradingHalted ==
    ~is_globally_ok_to_trade

\* a consumer that does not look at the lock
LockNeverSeen ==
    FALSE

\* `if self._trade_in_progress:` of _strategy_loop
TradeInProgress ==
    trade_in_progress

\* _unlock_trade
_unlock_trade ==
    IF trade_in_progress
    THEN /\ trade_in_progress' = FALSE
         /\ pending_symbol' = NoSymbol
    ELSE UNCHANGED << trade_in_progress, pending_symbol >>

\* the lock taken at the head of _execute_buy_trade / _execute_sell_trade
LockTrade(symbol) ==
    /\ trade_in_progress' = TRUE
    /\ pending_symbol' = symbol

\* one pass of _strategy_loop from the queue get to the next await: the
\* signal is skipped (kill switch, lock), ignored by the evaluation, or the
\* lock is taken and the first order request is sent
StrategyLoop ==
    /\ Runs(strategy_task)
    /\ pc = "get"
    /\ signal_queue # << >>
    /\ LET got == QueueGet(signal_queue)
           sig == got.signal
           ev  == _evaluate_signal(sig)
       IN  /\ signal_queue' = got.queue
           /\ IF TradingHalted
              THEN /\ kill_seen' = TRUE
                   /\ last' = Op("skip_kill_switch", sig)
                   /\ UNCHANGED << pc, signal, requests, trade_in_progress,
                                   pending_symbol, order_times >>
              ELSE IF TradeInProgress
              THEN /\ last' = Op("skip_locked", sig)
                   /\ UNCHANGED << pc, signal, requests, trade_in_progress,
                                   pending_symbol, kill_seen, order_times >>
              ELSE IF ev.outcome = "evaluate_exception"
              THEN /\ pc' = "error_sleep"
                   /\ last' = Op(ev.outcome, sig)
                   /\ UNCHANGED << signal, requests, trade_in_progress,
                                   pending_symbol, kill_seen, order_times >>
              ELSE IF Submits(ev.outcome)
              THEN /\ LockTrade(sig.symbol)
                   /\ pc' = "place"
                   /\ signal' = sig
                   /\ requests' = 1
                   /\ order_times' = IF sig.side = "Buy"
                                      THEN [order_times EXCEPT ![sig.symbol].buy_sent = now]
                                      ELSE order_times
                   /\ last' = [Op(ev.outcome, sig) EXCEPT
                                 !.notional = IF sig.side = "Buy"
                                              THEN calculate_notional_size(sig.symbol)
                                              ELSE 0]
                   /\ UNCHANGED kill_seen
              ELSE /\ last' = Op(ev.outcome, sig)
                   /\ UNCHANGED << pc, signal, requests, trade_in_progress,
                                   pending_symbol, kill_seen, order_times >>
           /\ recent_errors' = IF /\ ~TradingHalted
                                  /\ ~TradeInProgress
                                  /\ ev.outcome = "evaluate_exception"
                               THEN add_error("Strategy loop error")
                               ELSE recent_errors
    /\ UNCHANGED << status, taskVars, last_trade_times, unlock_timers, balances,
                    orderbooks, total_equity, available_balance,
                    initial_total_equity, pnl_day, positions, config, now,
                    exit_checks, serviceVars >>

\* the consumer after the asyncio.sleep(5) of its exception handler
ErrorSleepOver ==
    /\ Runs(strategy_task)
    /\ pc = "error_sleep"
    /\ pc' = "get"
    /\ last' = Op("error_sleep_over", NoSignal)
    /\ UNCHANGED << status, taskVars, signal, requests, trade_in_progress,
                    pending_symbol, last_trade_times, signal_queue, unlock_timers,
                    storeVars, now, kill_seen, exit_checks, order_times, serviceVars >>

----------------------------------------------------------------------------
(* StrategyRouter: execution.  While pc = "place" one request to           *)
(* /v5/order/create is outstanding; `requests` counts those sent so far    *)
(* for the signal being executed.                                          *)

\* async_retry around BybitClient._request: whether a failed attempt is
\* followed by another one
RetriesLeft(sent) ==
    sent < RETRY_ATTEMPTS

\* asyncio.create_task(self._unlock_after_delay(5))
ScheduleUnlock ==
    unlock_timers' = unlock_timers + 1

\* the order came back with an orderId: the cooldown starts; a SELL
\* schedules its unlock and returns, a BUY sleeps and fetches the history
OrderAccepted ==
    /\ Runs(strategy_task)
    /\ pc = "place"
    /\ last_trade_times' = [last_trade_times EXCEPT ![signal.symbol] = now]
    /\ order_times' = [order_times EXCEPT ![signal.symbol].accepted = now]
    /\ IF signal.side = "Buy"
       THEN /\ pc' = "buy_sleep"
            /\ UNCHANGED << signal, requests, unlock_timers >>
       ELSE /\ ScheduleUnlock
            /\ pc' = "get"
            /\ signal' = NoSignal
            /\ requests' = 0
    /\ last' = Op("order_accepted", signal)
    /\ UNCHANGED << status, taskVars, trade_in_progress, pending_symbol,
                    signal_queue, storeVars, now, exit_checks, kill_seen, serviceVars >>

\* a failure branch that forgets the unlock
ExecuteFailedLocked ==
    /\ UNCHANGED << trade_in_progress, pending_symbol >>
    /\ pc' = "get"
    /\ signal' = NoSignal
    /\ requests' = 0
    /\ UNCHANGED last_trade_times

\* a failure branch that starts the cooldown of the symbol
ExecuteFailedCooldown ==
    /\ _unlock_trade
    /\ pc' = "get"
    /\ signal' = NoSignal
    /\ requests' = 0
    /\ last_trade_times' = [last_trade_times EXCEPT ![signal.symbol] = now]

\* the failure branch of _execute_*_trade (no orderId, or an exception):
\* the lock is released and nothing else is written
ExecuteFailed ==
    /\ _unlock_trade
    /\ pc' = "get"
    /\ signal' = NoSignal
    /\ requests' = 0
    /\ UNCHANGED last_trade_times

\* place_market_order returned a result without orderId
OrderWithoutId ==
    /\ Runs(strategy_task)
    /\ pc = "place"
    /\ ExecuteFailed
    /\ last' = Op("order_without_id", signal)
    /\ UNCHANGED << status, taskVars, signal_queue,
                    unlock_timers, storeVars, now, exit_checks, kill_seen, order_times, serviceVars >>

\* _request raised (HTTP error, retCode # 0): async_retry sends it again,
\* and after the last attempt the exception reaches _execute_*_trade
RequestFailed ==
    /\ Runs(strategy_task)
    /\ pc = "place"
    /\ IF RetriesLeft(requests)
       THEN /\ requests' = requests + 1
            /\ last' = Op("order_resent", signal)
            /\ UNCHANGED << pc, signal, trade_in_progress, pending_symbol,
                            last_trade_times >>
       ELSE /\ ExecuteFailed
            /\ last' = Op("order_exception", signal)
    /\ UNCHANGED << status, taskVars, signal_queue,
                    unlock_timers, storeVars, now, exit_checks, kill_seen, order_times, serviceVars >>

\* _execute_buy_trade after asyncio.sleep(2.0) and the order history: the
\* fill is recorded, or the exception of the inner try is caught and
\* logged; either way the unlock is scheduled and the consumer returns to
\* the queue
\* the order history has no entry with a valid avgPrice
NoFill ==
    0

\* history and history[0].get('avgPrice') and float(history[0]['avgPrice']) > 0
ValidFill(avgPrice) ==
    avgPrice > NoFill

\* an entry price taken from the price the signal was evaluated at
reference_entry_price(avgPrice) ==
    CurrentPrice(signal.symbol)

\* actual_entry_price = float(history[0]['avgPrice'])
actual_entry_price(avgPrice) ==
    avgPrice

\* the recording when the order history reports avgPrice: with a valid
\* avgPrice the trade is added and the position stored, unless a step of the
\* recording raises
BuyRecordedAt(avgPrice) ==
    /\ Runs(strategy_task)
    /\ pc = "buy_sleep"
    /\ ScheduleUnlock
    /\ pc' = "get"
    /\ signal' = NoSignal
    /\ requests' = 0
    /\ \E recorded \in { r \in BOOLEAN : r => ValidFill(avgPrice) } :
          IF recorded
          THEN /\ recent_trades' = add_trade(HistoryEntry(signal))
               /\ add_or_update_position(
                      Position(signal.symbol, actual_entry_price(avgPrice)))
               /\ last' = [Op("buy_recorded", signal)
                              EXCEPT !.avgPrice = avgPrice]
          ELSE /\ UNCHANGED << positions, recent_trades >>
               /\ last' = Op("buy_record_failed", signal)
    /\ UNCHANGED << status, taskVars, trade_in_progress, pending_symbol,
                    last_trade_times, signal_queue, balances, orderbooks,
                    total_equity, available_balance, initial_total_equity,
                    pnl_day, recent_errors, config, now, exit_checks, kill_seen,
                    order_times, balance_data, current_equity, imbalance, retry,
                    risk_config, risk_request >>

\* the order was filled at the best bid, or its history shows no valid
\* avgPrice
BuyRecorded ==
    /\ pc = "buy_sleep"
    /\ \E avgPrice \in {NoFill, CurrentPrice(signal.symbol)} :
          BuyRecordedAt(avgPrice)

\* the fill prices around the best bid
SlipLevels ==
    {0, 1}

\* the order was filled at or next to the best bid, or its history shows no
\* valid avgPrice
BuyRecordedSlipped ==
    /\ pc = "buy_sleep"
    /\ \E avgPrice \in {NoFill} \cup
                        { CurrentPrice(signal.symbol) + d : d \in SlipLevels } :
          BuyRecordedAt(avgPrice)

\* _unlock_after_delay once its sleep is over
UnlockAfterDelay ==
    /\ unlock_timers > 0
    /\ unlock_timers' = unlock_timers - 1
    /\ _unlock_trade
    /\ last' = Op("unlock_after_delay", NoSignal)
    /\ UNCHANGED << status, taskVars, pc, signal, requests, last_trade_times,
                    signal_queue, storeVars, now, exit_checks, kill_seen, order_times, serviceVars >>

----------------------------------------------------------------------------
(* StrategyRouter: start and stop *)

\* a start() that leaves the lock as the last run left it
KeepLock ==
    UNCHANGED << trade_in_progress, pending_symbol >>

\* the head of start(): the lock is cleared
ResetLock ==
    /\ trade_in_progress' = FALSE
    /\ pending_symbol' = NoSymbol

\* start() when not running: the lock is reset, the status published and
\* the three loops spawned (a run may begin while at most MaxTimers - 1
\* unlock timers of earlier runs are pending)
StartTasks ==
    /\ unlock_timers < MaxTimers
    /\ ResetLock
    /\ status' = "running"
    /\ strategy_task' = "running"
    /\ signal_gen_task' = "running"
    /\ position_monitor_task' = "running"
    /\ UNCHANGED << stop_pc, orphan_tasks >>
    /\ pc' = "get"

\* start() without its early return
StartAlways ==
    /\ StartTasks
    /\ last' = Op("start", NoSignal)
    /\ UNCHANGED << signal, requests, last_trade_times, signal_queue,
                    unlock_timers, storeVars, now, exit_checks, kill_seen, order_times, serviceVars >>

\* start(): a no-op on a router that is running
Start ==
    /\ IF is_running
       THEN /\ last' = Op("start_ignored", NoSignal)
            /\ UNCHANGED << status, taskVars, pc, trade_in_progress, pending_symbol >>
       ELSE /\ StartTasks
            /\ last' = Op("start", NoSignal)
    /\ UNCHANGED << signal, requests, last_trade_times, signal_queue,
                    unlock_timers, storeVars, now, exit_checks, kill_seen, order_times, serviceVars >>

\* stop(): the three tasks are cancelled wherever they are suspended
\* (CancelledError is not an Exception, so no handler of _execute_*_trade
\* runs), then the status is published
Stop ==
    /\ IF ~is_running
       THEN /\ last' = Op("stop_ignored", NoSignal)
            /\ UNCHANGED << status, taskVars, pc, signal, requests >>
       ELSE /\ strategy_task' = "none"
            /\ signal_gen_task' = "none"
            /\ position_monitor_task' = "none"
            /\ UNCHANGED << stop_pc, orphan_tasks >>
            /\ pc' = "none"
            /\ signal' = NoSignal
            /\ requests' = 0
            /\ status' = "stopped"
            /\ last' = Op("stop", NoSignal)
    /\ UNCHANGED << trade_in_progress, pending_symbol, last_trade_times,
                    signal_queue, unlock_timers, storeVars, now, exit_checks, kill_seen, order_times, serviceVars >>

\* a task still has code to run: it is running, or its cancellation was
\* requested and the CancelledError is still to be delivered
Executing(task) ==
    task \in {"running", "cancelling"}

\* stop() up to its await of asyncio.gather: cancel() is requested on each of
\* the three tasks
StopBegin ==
    /\ stop_pc = "idle"
    /\ IF ~is_running
       THEN /\ last' = Op("stop_ignored", NoSignal)
            /\ UNCHANGED taskVars
       ELSE /\ strategy_task' = "cancelling"
            /\ signal_gen_task' = "cancelling"
            /\ position_monitor_task' = "cancelling"
            /\ stop_pc' = "gather"
            /\ UNCHANGED orphan_tasks
            /\ last' = Op("stop_cancel", NoSignal)
    /\ UNCHANGED << status, pc, signal, requests, trade_in_progress,
                    pending_symbol, last_trade_times, signal_queue, unlock_timers,
                    storeVars, now, exit_checks, kill_seen, order_times, serviceVars >>

\* the consumer is resumed with CancelledError at the await it is suspended
\* in and leaves its loop
ConsumerCancelled ==
    /\ strategy_task = "cancelling"
    /\ strategy_task' = "done"
    /\ pc' = "none"
    /\ signal' = NoSignal
    /\ requests' = 0
    /\ UNCHANGED << status, signal_gen_task, position_monitor_task, stop_pc,
                    orphan_tasks,
                    trade_in_progress, pending_symbol, last_trade_times,
                    signal_queue, unlock_timers, storeVars, now, exit_checks, kill_seen,
                    order_times, last, serviceVars >>

\* the scanner is resumed with CancelledError in its sleep and leaves its
\* loop
ScannerCancelled ==
    /\ signal_gen_task = "cancelling"
    /\ signal_gen_task' = "done"
    /\ UNCHANGED << status, strategy_task, position_monitor_task, stop_pc,
                    orphan_tasks, pc,
                    signal, requests, trade_in_progress, pending_symbol,
                    last_trade_times, signal_queue, unlock_timers, storeVars,
                    now, exit_checks, kill_seen, order_times, last, serviceVars >>

\* the exit monitor is resumed with CancelledError in its sleep and leaves
\* its loop
MonitorCancelled ==
    /\ position_monitor_task = "cancelling"
    /\ position_monitor_task' = "done"
    /\ UNCHANGED << status, strategy_task, signal_gen_task, stop_pc,
                    orphan_tasks, pc,
                    signal, requests, trade_in_progress, pending_symbol,
                    last_trade_times, signal_queue, unlock_timers, storeVars,
                    now, exit_checks, kill_seen, order_times, last, serviceVars >>

\* stop() resumed without waiting for the tasks it cancelled
StopEndNoGather ==
    /\ stop_pc = "gather"
    /\ strategy_task' = "none"
    /\ signal_gen_task' = "none"
    /\ position_monitor_task' = "none"
    /\ stop_pc' = "idle"
    /\ UNCHANGED orphan_tasks
    /\ status' = "stopped"
    /\ last' = Op("stop", NoSignal)
    /\ UNCHANGED << pc, signal, requests, trade_in_progress, pending_symbol,
                    last_trade_times, signal_queue, unlock_timers, storeVars,
                    now, exit_checks, kill_seen, order_times, serviceVars >>

\* stop() resumed by asyncio.gather once the three tasks are done: the
\* handles are cleared and the status is published
StopEnd ==
    /\ stop_pc = "gather"
    /\ strategy_task = "done"
    /\ signal_gen_task = "done"
    /\ position_monitor_task = "done"
    /\ strategy_task' = "none"
    /\ signal_gen_task' = "none"
    /\ position_monitor_task' = "none"
    /\ stop_pc' = "idle"
    /\ UNCHANGED orphan_tasks
    /\ status' = "stopped"
    /\ last' = Op("stop", NoSignal)
    /\ UNCHANGED << pc, signal, requests, trade_in_progress, pending_symbol,
                    last_trade_times, signal_queue, unlock_timers, storeVars,
                    now, exit_checks, kill_seen, order_times, serviceVars >>

\* asyncio.gather of stop() completes: the three cancelled tasks are done
\* and the wake-up of stop() is scheduled, behind the callbacks that are
\* ready already
GatherDone ==
    /\ stop_pc = "gather"
    /\ strategy_task = "done"
    /\ signal_gen_task = "done"
    /\ position_monitor_task = "done"
    /\ stop_pc' = "resume"
    /\ last' = Op("gather_done", NoSignal)
    /\ UNCHANGED << status, strategy_task, signal_gen_task,
                    position_monitor_task, orphan_tasks, pc, signal, requests,
                    trade_in_progress, pending_symbol, last_trade_times,
                    signal_queue, unlock_timers, storeVars, now, exit_checks,
                    kill_seen, order_times, serviceVars >>

\* stop() resumed after its gather: the three handles are set to None,
\* whatever they refer to by now, and the status is published.  Tasks that a
\* start() spawned since the gather completed go on without a handle.
StopResume ==
    /\ stop_pc = "resume"
    /\ orphan_tasks' = IF Executing(strategy_task)
                          THEN orphan_tasks + 1 ELSE orphan_tasks
    /\ strategy_task' = "none"
    /\ signal_gen_task' = "none"
    /\ position_monitor_task' = "none"
    /\ stop_pc' = "idle"
    /\ status' = "stopped"
    /\ last' = Op("stop", NoSignal)
    /\ UNCHANGED << pc, signal, requests, trade_in_progress, pending_symbol,
                    last_trade_times, signal_queue, unlock_timers, storeVars,
                    now, exit_checks, kill_seen, order_times, serviceVars >>

----------------------------------------------------------------------------
(* StateStore writes and the clock *)

\* best bids, with 10000 the price at which the positions of InitMonitor
\* were filled
BidLevels ==
    {9960, 9975, 10000, 10040, 10060}

\* update_orderbook: the book of the symbol is overwritten
UpdateOrderbook(symbol, bid) ==
    /\ orderbooks' = [orderbooks EXCEPT ![symbol] = bid]
    /\ orderbooks' # orderbooks
    /\ UNCHANGED << routerVars, signal_queue, balances, total_equity,
                    available_balance, initial_total_equity, pnl_day, positions,
                    recent_errors, config, now, kill_seen, exit_checks, last, serviceVars >>

Snapshots ==
    [totalEquity : EquityLevels, totalAvailableBalance : AvailableLevels,
     coin : [Coins -> WalletLevels]]

\* a coin entry of a snapshot that CoinBalance(**coin_data) rejects
MalformedCoin ==
    -1

\* a loop over the coin entries that stores nothing once one entry is rejected
ParsedCoinsAllOrNothing(data) ==
    [c \in Coins |->
        IF \E d \in Coins : data.coin[d] = MalformedCoin
        THEN 0
        ELSE data.coin[c]]

\* _balances after clear() and the loop over the coin entries: an entry that
\* CoinBalance rejects is skipped, so that its coin has no balance
ParsedCoins(data) ==
    [c \in Coins |->
        IF data.coin[c] = MalformedCoin THEN 0 ELSE data.coin[c]]

\* total_equity and available_balance of the data fetched
update_wallet_totals(data) ==
    /\ total_equity' = data.totalEquity
    /\ available_balance' = data.totalAvailableBalance

\* a refresh that leaves the coins of the last one
keep_wallet_coins(data) ==
    UNCHANGED << balances, positions >>

\* _balances.clear() and the loop over the coin entries, then held_symbols
\* and active_positions
update_wallet_coins(data) ==
    /\ balances' = ParsedCoins(data)
    /\ positions' = [s \in Symbols |->
                        IF ParsedCoins(data)[BaseCurrency(s)] > 0
                        THEN HoldingEntry
                        ELSE NoPosition]

\* the writes of update_wallet_balance for the data fetched: the block under
\* the lock has no await, and the lock, never held across one, is free when
\* it is taken, so that the block is one step
update_wallet_balance(data) ==
    /\ update_wallet_totals(data)
    /\ pnl_day' = IF initial_total_equity > 0
                  THEN data.totalEquity - initial_total_equity
                  ELSE pnl_day
    /\ update_wallet_coins(data)

\* update_wallet_balance with the snapshot the exchange returned
UpdateWalletBalance(snapshot) ==
    /\ update_wallet_balance(snapshot)
    /\ << total_equity', available_balance', pnl_day', balances' >>
          # << total_equity, available_balance, pnl_day, balances >>
    /\ UNCHANGED << routerVars, signal_queue, orderbooks, initial_total_equity,
                    recent_errors, config, now, exit_checks, kill_seen, last, serviceVars >>

\* the poller holds no response
NoResponse ==
    [outcome |-> "none", totalEquity |-> 0, totalAvailableBalance |-> 0,
     coin |-> [c \in Coins |-> 0]]

\* what get_wallet_balance can come back with: it raises (after its retries),
\* it returns nothing, or it returns a snapshot whose coin entries may be
\* malformed
Responses ==
    [outcome : {"raised", "empty"}, totalEquity : {0},
     totalAvailableBalance : {0}, coin : {[c \in Coins |-> 0]}]
    \cup
    [outcome : {"data"}, totalEquity : EquityLevels,
     totalAvailableBalance : AvailableLevels,
     coin : [Coins -> {MalformedCoin, 0, 2}]]

\* update_wallet_balance up to the return of get_wallet_balance
WalletFetch(response) ==
    /\ balance_data = NoResponse
    /\ balance_data' = response
    /\ UNCHANGED << routerVars, signal_queue, storeVars, now, kill_seen,
                    exit_checks, last, current_equity, imbalance, retry, recent_trades,
                    risk_config, risk_request >>

\* a failed fetch that still empties the balances
FetchFailedClears ==
    /\ balances' = [c \in Coins |-> 0]
    /\ UNCHANGED << total_equity, available_balance, pnl_day, positions >>

\* update_wallet_balance when the fetch raised (the except branch) or returned
\* nothing (the early return): no field is written
FetchFailed ==
    UNCHANGED << total_equity, available_balance, pnl_day, balances, positions >>

\* update_wallet_balance from the return of get_wallet_balance on
WalletApply ==
    /\ balance_data # NoResponse
    /\ IF balance_data.outcome \in {"raised", "empty"}
       THEN /\ FetchFailed
            /\ last' = Op("wallet_" \o balance_data.outcome, NoSignal)
       ELSE /\ update_wallet_balance(balance_data)
            /\ last' = Op(IF \E c \in Coins : balance_data.coin[c] = MalformedCoin
                          THEN "wallet_updated_coin_skipped"
                          ELSE "wallet_updated", NoSignal)
    /\ balance_data' = NoResponse
    /\ UNCHANGED << routerVars, signal_queue, orderbooks, initial_total_equity,
                    recent_errors, config, now, kill_seen, exit_checks,
                    current_equity, imbalance, retry, recent_trades, risk_config,
                    risk_request >>

\* set_risk_config(config), awaited
set_risk_config(c) ==
    risk_config' = << c >>

\* update_config(new_config): the engine's configuration is replaced;
\* state_store.set_risk_config(...) is called without await, so that the
\* coroutine it returns never runs
update_config(new_config) ==
    /\ config' = new_config
    /\ UNCHANGED risk_config

\* POST /config/risk with a body that RiskConfig accepts
UpdateRiskConfig(c) ==
    /\ update_config(c)
    /\ risk_request' = << c >>
    /\ last' = Op("update_config", NoSignal)
    /\ UNCHANGED << routerVars, signal_queue, balances, orderbooks, total_equity,
                    available_balance, initial_total_equity, pnl_day, positions,
                    recent_errors, now, kill_seen, exit_checks, balance_data,
                    current_equity, imbalance, retry, recent_trades >>

\* a reset that also empties the two logs
reset_daily_state_and_logs(equity) ==
    /\ initial_total_equity' = equity
    /\ pnl_day' = 0
    /\ recent_errors' = << >>
    /\ recent_trades' = << >>

\* reset_daily_state(current_equity): the baseline and the daily P&L are
\* written; the trade and error logs are not reset, and _update_state
\* republishes them as they are
reset_daily_state(equity) ==
    /\ initial_total_equity' = equity
    /\ pnl_day' = 0
    /\ UNCHANGED << recent_errors, recent_trades >>

\* reset_daily_state was not called yet
NoEquity ==
    -1

\* a call of reset_daily_state with the equity its caller passes
ResetDailyState(equity) ==
    /\ reset_daily_state(equity)
    /\ current_equity' = equity
    /\ last' = Op("reset_daily_state", NoSignal)
    /\ UNCHANGED << routerVars, signal_queue, balances, orderbooks, total_equity,
                    available_balance, positions, config, now, kill_seen,
                    exit_checks, balance_data, imbalance, retry, risk_config,
                    risk_request >>

\* state_store.add_trade(trade) by a task that recorded an order
AddTrade(trade) ==
    /\ recent_trades' = add_trade(trade)
    /\ recent_trades' # recent_trades
    /\ UNCHANGED << routerVars, signal_queue, storeVars, now, kill_seen,
                    exit_checks, last, balance_data, current_equity, imbalance, retry,
                    risk_config, risk_request >>

\* state_store.add_error(error_message), awaited
AddError(error_message) ==
    /\ recent_errors' = add_error(error_message)
    /\ recent_errors' # recent_errors
    /\ UNCHANGED << routerVars, signal_queue, balances, orderbooks, total_equity,
                    available_balance, initial_total_equity, pnl_day, positions,
                    config, now, kill_seen, exit_checks, last, serviceVars >>

\* a reset task that leaves a stopped router stopped
LeaveStopped ==
    UNCHANGED << status, taskVars, pc, trade_in_progress, pending_symbol >>

\* `if not router.is_running(): await router.start()` of daily_reset_task
RestartIfStopped ==
    IF is_running
    THEN UNCHANGED << status, taskVars, pc, trade_in_progress, pending_symbol >>
    ELSE StartTasks

\* daily_reset_task after its wallet refresh: the reset, and a restart of a
\* router that is not running
DailyReset ==
    /\ reset_daily_state(total_equity)
    /\ kill_seen' = FALSE
    /\ RestartIfStopped
    /\ last' = Op("daily_reset", NoSignal)
    /\ UNCHANGED << signal, requests, last_trade_times, signal_queue, unlock_timers,
                    balances, orderbooks, total_equity, available_balance,
                    positions, config, now, exit_checks, order_times,
                    balance_data, current_equity, imbalance, retry, risk_config,
                    risk_request >>

\* set_initial_equity(equity)
set_initial_equity(equity) ==
    initial_total_equity' = equity

\* the application startup from the return of get_wallet_balance on: the
\* first wallet refresh applies the response or fails (the exception is
\* caught and logged), and the total equity of the state, 0.0 if it was not
\* written, becomes the baseline; the poller and the reset task are
\* created afterwards
Startup(response) ==
    /\ last.op = "init"
    /\ IF response.outcome = "data"
       THEN update_wallet_balance(response)
       ELSE FetchFailed
    /\ set_initial_equity(total_equity')
    /\ last' = Op("startup", NoSignal)
    /\ UNCHANGED << routerVars, signal_queue, orderbooks, recent_errors, config,
                    now, kill_seen, exit_checks, serviceVars >>

\* daily_reset_task from the return of get_wallet_balance on: the wallet
\* refresh applies the response or fails, the equity is read and passed to
\* reset_daily_state, and a router that is not running is started; no await
\* of this sequence suspends (the lock is free, start() awaits set_status
\* only), so that it is one step.  The operation is recorded as
\* "daily_reset_halted" when trading was halted as the task resumed
DailyResetTask(response) ==
    /\ IF response.outcome = "data"
       THEN /\ update_wallet_totals(response)
            /\ update_wallet_coins(response)
       ELSE UNCHANGED << total_equity, available_balance, balances, positions >>
    /\ reset_daily_state(total_equity')
    /\ current_equity' = total_equity'
    /\ kill_seen' = FALSE
    /\ RestartIfStopped
    /\ last' = Op(IF TradingHalted THEN "daily_reset_halted" ELSE "daily_reset",
                  NoSignal)
    /\ UNCHANGED << signal, requests, last_trade_times, signal_queue, unlock_timers,
                    orderbooks, config, now, exit_checks, order_times,
                    balance_data, imbalance, retry, risk_config, risk_request >>

Tick ==
    /\ now < MaxTime
    /\ \E d \in TickSeconds : now' = now + d
    /\ UNCHANGED << routerVars, signal_queue, storeVars, kill_seen,
                    exit_checks, last, serviceVars >>

----------------------------------------------------------------------------
(* Initial states *)

\* the largest number of attempts of a wrapper
MaxAttempts ==
    3

\* wrapper(*args) of async_retry(attempts, delay, backoff) when it is called:
\* current_delay = delay, and the loop is entered with i = 0 (pc "call",
\* func awaited for the first time) or, with no attempt to make, left at once
RetryCall(attempts, delay, backoff) ==
    [pc |-> IF attempts > 0 THEN "call" ELSE "returned",
     attempts |-> attempts, delay |-> delay, backoff |-> backoff,
     i |-> 0, current_delay |-> delay,
     calls |-> IF attempts > 0 THEN 1 ELSE 0,
     result |-> 0, raised |-> 0, sleeps |-> << >>]

\* no wrapper is being called
NoRetry ==
    [RetryCall(0, 0, 0) EXCEPT !.pc = "idle"]

\* a test of the last attempt that lets one more attempt through
is_after_last_attempt(i, attempts) ==
    i = attempts

\* if i == attempts - 1
is_last_attempt(i, attempts) ==
    i = attempts - 1

\* func returned: the wrapper returns its result (the number of the call
\* stands for it)
FuncReturns ==
    /\ retry.pc = "call"
    /\ retry' = [retry EXCEPT !.pc = "returned", !.result = retry.calls]
    /\ UNCHANGED << routerVars, signal_queue, storeVars, now, exit_checks,
                    kill_seen, last, balance_data, current_equity, imbalance,
                    recent_trades, risk_config, risk_request >>

\* func raised an Exception (the number of the call stands for it): it is
\* re-raised on the last attempt, and otherwise asyncio.sleep(current_delay)
\* is awaited
FuncRaises ==
    /\ retry.pc = "call"
    /\ retry' = IF is_last_attempt(retry.i, retry.attempts)
                THEN [retry EXCEPT !.pc = "raised", !.raised = retry.calls]
                ELSE [retry EXCEPT !.pc = "sleep",
                                   !.sleeps = Append(retry.sleeps,
                                                     retry.current_delay)]
    /\ UNCHANGED << routerVars, signal_queue, storeVars, now, exit_checks,
                    kill_seen, last, balance_data, current_equity, imbalance,
                    recent_trades, risk_config, risk_request >>

\* the sleep is over: current_delay *= backoff, and func is awaited again
\* with the next i
SleepOver ==
    /\ retry.pc = "sleep"
    /\ retry' = [retry EXCEPT !.pc = "call",
                              !.current_delay = retry.current_delay * retry.backoff,
                              !.i = retry.i + 1,
                              !.calls = retry.calls + 1]
    /\ UNCHANGED << routerVars, signal_queue, storeVars, now, exit_checks,
                    kill_seen, last, balance_data, current_equity, imbalance,
                    recent_trades, risk_config, risk_request >>

\* the task is cancelled while the wrapper awaits func (except
\* CancelledError: raise) or its sleep (raised inside the handler, so that
\* no clause of the try catches it)
RetryCancelled ==
    /\ retry.pc \in {"call", "sleep"}
    /\ retry' = [retry EXCEPT !.pc = "cancelled"]
    /\ UNCHANGED << routerVars, signal_queue, storeVars, now, exit_checks,
                    kill_seen, last, balance_data, current_equity, imbalance,
                    recent_trades, risk_config, risk_request >>

\* no wallet refresh under way; SystemState() has risk_config None
InitServices ==
    /\ balance_data = NoResponse
    /\ current_equity = NoEquity
    /\ imbalance = [s \in Symbols |-> "flat"]
    /\ recent_trades = << >>
    /\ retry = NoRetry
    /\ risk_config = << >>
    /\ risk_request = << >>

\* StrategyRouter.__init__
InitRouter ==
    /\ status = "stopped"
    /\ strategy_task = "none"
    /\ signal_gen_task = "none"
    /\ position_monitor_task = "none"
    /\ stop_pc = "idle"
    /\ orphan_tasks = 0
    /\ pc = "none"
    /\ signal = NoSignal
    /\ requests = 0
    /\ trade_in_progress = FALSE
    /\ pending_symbol = NoSymbol
    /\ last_trade_times = [s \in Symbols |-> NoTime]
    /\ signal_queue = << >>
    /\ unlock_timers = 0
    /\ now = 0
    /\ kill_seen = FALSE
    /\ exit_checks = [s \in Symbols |-> NoCheck]
    /\ order_times = [s \in Symbols |-> [buy_sent |-> NoTime, accepted |-> NoTime]]
    /\ last = Op("init", NoSignal)

\* the store once the application startup has loaded the wallet and set the
\* baseline, and the order book feed has delivered both books: 2 BTC (8 USD:
\* sellable, and dust for a BUY), no ETH
InitStoreLoaded ==
    /\ balances = [c \in Coins |-> IF c = "BTC" THEN 2 ELSE 0]
    /\ orderbooks = [s \in Symbols |-> 4]
    /\ total_equity = 1000
    /\ available_balance = 150
    /\ initial_total_equity = 1000
    /\ pnl_day = 0
    /\ positions = [s \in Symbols |->
                       IF s = "BTCUSDT" THEN HoldingEntry ELSE NoPosition]
    /\ recent_errors = << >>
    /\ config = _load_config_from_settings

\* StateStore.__init__ and SystemState(): nothing loaded yet
InitStore ==
    /\ balances = [c \in Coins |-> 0]
    /\ orderbooks = [s \in Symbols |-> NoBook]
    /\ total_equity = 0
    /\ available_balance = 0
    /\ initial_total_equity = 0
    /\ pnl_day = 0
    /\ positions = [s \in Symbols |-> NoPosition]
    /\ recent_errors = << >>
    /\ config = _load_config_from_settings

Init ==
    InitRouter /\ InitServices /\ InitStoreLoaded

----------------------------------------------------------------------------
(* Specifications *)

Consumer ==
    \/ StrategyLoop
    \/ OrderAccepted
    \/ OrderWithoutId
    \/ RequestFailed
    \/ BuyRecorded

TrendProducer ==
    \E s \in Symbols, side \in {"Buy", "Sell"} : TrendSignal(s, side)

Producers ==
    \/ ScannerCycle
    \/ TrendProducer
    \/ \E s \in Symbols : PositionMonitor(s)

\* the router under start/stop, on a loaded store
Next ==
    \/ Start
    \/ Stop
    \/ Producers
    \/ Consumer
    \/ UnlockAfterDelay

Spec ==
    Init /\ [][Next]_vars

\* the router, once started, with the clock running; the signals come from
\* the trend aggregator
NextClock ==
    \/ Start
    \/ TrendProducer
    \/ Consumer
    \/ UnlockAfterDelay
    \/ Tick

SpecClock ==
    Init /\ [][NextClock]_vars

CoinSnapshots ==
    { s \in Snapshots : s.totalEquity = 1000 /\ s.totalAvailableBalance = 150 }

\* the evaluation against a changing wallet, with every order accepted
NextMarket ==
    \/ Start
    \/ TrendProducer
    \/ StrategyLoop
    \/ OrderAccepted
    \/ BuyRecorded
    \/ UnlockAfterDelay
    \/ \E snapshot \in CoinSnapshots : UpdateWalletBalance(snapshot)

SpecMarket ==
    Init /\ [][NextMarket]_vars

EquitySnapshots ==
    { s \in Snapshots : s.totalAvailableBalance = 150 /\ s.coin = [c \in Coins |-> 0] }

\* the kill switch against a changing equity
NextKill ==
    \/ Start
    \/ TrendProducer
    \/ Consumer
    \/ UnlockAfterDelay
    \/ \E snapshot \in EquitySnapshots : UpdateWalletBalance(snapshot)
    \/ DailyReset

SpecKill ==
    Init /\ [][NextKill]_vars

\* the event loop runs every task that is ready: an order request ends (a
\* response or the client's timeout), a sleep ends
Fairness ==
    /\ WF_vars(OrderAccepted \/ OrderWithoutId \/ RequestFailed)
    /\ WF_vars(BuyRecorded)
    /\ WF_vars(UnlockAfterDelay)

FairSpec ==
    Init /\ [][Next]_vars /\ Fairness

\* the router on a store whose daily P&L and equity are drawn around the
\* loss limit and the profit target, under one of two loss limits
PnlLevels ==
    {-250, -200, -199, 0, 9, 10, 11}

RiskEquityLevels ==
    {0, 1000}

LossLimits ==
    {DAY_LOSS_LIMIT_USD, 250}

InitRisk ==
    /\ InitRouter
    /\ InitServices
    /\ balances = [c \in Coins |-> IF c = "BTC" THEN 2 ELSE 0]
    /\ orderbooks = [s \in Symbols |-> 4]
    /\ total_equity \in RiskEquityLevels
    /\ pnl_day \in PnlLevels
    /\ initial_total_equity = total_equity - pnl_day
    /\ initial_total_equity >= 0
    /\ available_balance = 150
    /\ positions = [s \in Symbols |->
                       IF s = "BTCUSDT" THEN HoldingEntry ELSE NoPosition]
    /\ recent_errors = << >>
    /\ \E limit \in LossLimits :
          config = [_load_config_from_settings EXCEPT !.day_loss_limit_usd = limit]

NextRisk ==
    \/ Start
    \/ TrendProducer
    \/ Consumer
    \/ UnlockAfterDelay

SpecRisk ==
    InitRisk /\ [][NextRisk]_vars

\* the router on a store with every combination of held coins (2 units, 8
\* USD: below the dust top-up threshold), under a limit of one or two
\* active symbols
HeldLevels ==
    {0, 2}

ActiveSymbolLimits ==
    {1, 2}

InitAdmission ==
    /\ InitRouter
    /\ InitServices
    /\ balances \in [Coins -> HeldLevels]
    /\ orderbooks = [s \in Symbols |-> 4]
    /\ total_equity = 1000
    /\ available_balance = 150
    /\ initial_total_equity = 1000
    /\ pnl_day = 0
    /\ positions = [s \in Symbols |->
                       IF balances[BaseCurrency(s)] > 0
                       THEN HoldingEntry
                       ELSE NoPosition]
    /\ recent_errors = << >>
    /\ \E limit \in ActiveSymbolLimits :
          config = [_load_config_from_settings EXCEPT !.max_active_symbols = limit]

SpecAdmission ==
    InitAdmission /\ [][NextRisk]_vars

\* the router on a store with nothing held, with the equity, the available
\* balance and the risk fraction drawn around the buffer and the minimum
\* order values
SizingEquityLevels ==
    {100, 1000}

SizingAvailableLevels ==
    {5, 50, 150}

RiskPerTradeLevels ==
    {10, RISK_PER_TRADE_PCT}

InitSizing ==
    /\ InitRouter
    /\ InitServices
    /\ balances = [c \in Coins |-> 0]
    /\ orderbooks = [s \in Symbols |-> 4]
    /\ total_equity \in SizingEquityLevels
    /\ available_balance \in SizingAvailableLevels
    /\ initial_total_equity = total_equity
    /\ pnl_day = 0
    /\ positions = [s \in Symbols |-> NoPosition]
    /\ recent_errors = << >>
    /\ \E risk \in RiskPerTradeLevels :
          config = [_load_config_from_settings EXCEPT !.risk_per_trade = risk]

SpecSizing ==
    InitSizing /\ [][NextRisk]_vars

\* the exit monitor on moving prices: ETH was bought at 10000, and BTC was
\* bought at 10000 or is not held; the configuration is the one of the
\* settings or the one of the documentation of the risk-config endpoint
FillPrice ==
    10000

MonitorConfigs ==
    { _load_config_from_settings,
      [_load_config_from_settings EXCEPT !.default_tp_bps = 60,
                                         !.default_sl_bps = 30,
                                         !.trailing_sl_bps = 20] }

InitMonitor ==
    /\ InitRouter
    /\ InitServices
    /\ balances \in [Coins -> {0, 2}]
    /\ balances["ETH"] > 0
    /\ orderbooks = [s \in Symbols |-> FillPrice]
    /\ total_equity = 1000
    /\ available_balance = 150
    /\ initial_total_equity = 1000
    /\ pnl_day = 0
    /\ positions = [s \in Symbols |->
                       IF balances[BaseCurrency(s)] > 0
                       THEN Position(s, FillPrice).record
                       ELSE NoPosition]
    /\ recent_errors = << >>
    /\ config \in MonitorConfigs

NextMonitor ==
    \/ Start
    \/ \E s \in Symbols, bid \in BidLevels : UpdateOrderbook(s, bid)
    \/ ExitMonitorCycle

SpecMonitor ==
    InitMonitor /\ [][NextMonitor]_vars

\* the router on a loaded store whose ETHUSDT book has a best bid entry
\* that float() rejects
InitErrors ==
    /\ InitRouter
    /\ InitServices
    /\ balances = [c \in Coins |-> IF c = "BTC" THEN 2 ELSE 0]
    /\ orderbooks = [s \in Symbols |->
                        IF s = "ETHUSDT" THEN MalformedBook ELSE 4]
    /\ total_equity = 1000
    /\ available_balance = 150
    /\ initial_total_equity = 1000
    /\ pnl_day = 0
    /\ positions = [s \in Symbols |->
                       IF s = "BTCUSDT" THEN HoldingEntry ELSE NoPosition]
    /\ recent_errors = << >>
    /\ config = _load_config_from_settings

NextErrors ==
    \/ Start
    \/ Stop
    \/ TrendProducer
    \/ Consumer
    \/ ErrorSleepOver
    \/ UnlockAfterDelay

SpecErrors ==
    InitErrors /\ [][NextErrors]_vars

\* the router with stop() taken step by step: one stop() at a time, and no
\* start() while a stop() waits for its tasks
StartWhenIdle ==
    stop_pc = "idle" /\ Start

TaskCancelled ==
    \/ ConsumerCancelled
    \/ ScannerCancelled
    \/ MonitorCancelled

NextStop ==
    \/ StartWhenIdle
    \/ StopBegin
    \/ TaskCancelled
    \/ StopEnd
    \/ Producers
    \/ Consumer
    \/ UnlockAfterDelay

SpecStop ==
    Init /\ [][NextStop]_vars

----------------------------------------------------------------------------
(* Properties *)

\* the consumer takes the head of the queue in this step
Dequeued ==
    Len(signal_queue') < Len(signal_queue)

\* the step neither takes the lock nor sends an order request
NoSubmission ==
    UNCHANGED << pc, signal, requests, trade_in_progress, pending_symbol >>

LockFree ==
    ~trade_in_progress /\ pending_symbol = NoSymbol

\* trades whose own lock release is still to come: the one the consumer is
\* submitting or recording, and one for every pending unlock timer
InFlight ==
    (IF pc \in {"place", "buy_sleep"} THEN 1 ELSE 0) + unlock_timers

\* C1: at any instant at most one trade is in flight, a trade being in
\* flight from the moment its lock is set until its own release of the lock
\* (at once on failure, by its unlock timer on success).
OneSubmissionInFlight ==
    InFlight <= 1

\* C2: for the signal being executed at most one order-creation request is
\* sent to the exchange; a failed request is never sent again.
OneRequestPerDecision ==
    requests <= 1

\* C3: when the consumer evaluates a SELL signal whose base asset has no
\* wallet balance, or whose held value (wallet balance times best bid) is
\* below the sell dust threshold, the lock is not taken and no order request
\* is sent.
SellDustNoOrder ==
    [][ ( /\ Dequeued
          /\ Head(signal_queue).side = "Sell"
          /\ \/ WalletBalance(Head(signal_queue).symbol) = 0
             \/ AssetValueUsd(Head(signal_queue).symbol) < MIN_SELL_VALUE_USD )
        => NoSubmission ]_vars

\* a SELL of a holding worth less than the threshold was evaluated and left
\* the router unlocked
SellDustSeen ==
    /\ last.op = "sell_dust"
    /\ WalletBalance(last.signal.symbol) > 0
    /\ AssetValueUsd(last.signal.symbol) < MIN_SELL_VALUE_USD
    /\ LockFree
    /\ pc = "get"

\* C4: when the consumer evaluates a BUY signal whose base asset is held
\* with a value at or above the dust top-up threshold, the evaluation does
\* not call RiskEngine.is_trade_allowed, the lock is not taken and no order
\* request is sent.
BuyHeldNoOrder ==
    [][ ( /\ Dequeued
          /\ Head(signal_queue).side = "Buy"
          /\ WalletBalance(Head(signal_queue).symbol) > 0
          /\ AssetValueUsd(Head(signal_queue).symbol) >= DUST_THRESHOLD_USD )
        => /\ NoSubmission
           /\ ~_evaluate_signal(Head(signal_queue)).risk ]_vars

\* a BUY of an asset held above the threshold was evaluated and ignored
BuyHeldSeen ==
    /\ last.op = "buy_held"
    /\ AssetValueUsd(last.signal.symbol) >= DUST_THRESHOLD_USD
    /\ LockFree
    /\ pc = "get"

\* C5: once the consumer has seen is_globally_ok_to_trade() return false,
\* no signal it takes off the queue reaches _evaluate_signal until the daily
\* reset has happened.
KillSwitchHaltsEvaluation ==
    [][ (kill_seen /\ Dequeued)
        => last'.op \in {"skip_kill_switch", "skip_locked"} ]_vars

\* C6 as stated: after a result without order id, or after any exception
\* raised in _execute_*_trade once the lock was taken (the failed recording
\* of an accepted BUY included), the lock is free and the consumer is back at
\* the queue.
AnyExceptionUnlocks ==
    last.op \in {"order_without_id", "order_exception", "buy_record_failed"}
        => LockFree /\ pc = "get"

\* C6: after place_market_order returned a result without order id or
\* raised, the lock is free and the consumer is back at the queue.
SubmissionFailureUnlocks ==
    last.op \in {"order_without_id", "order_exception"}
        => LockFree /\ pc = "get"

\* the order request raised after its last attempt and the router is
\* unlocked, waiting for the next signal
SubmissionFailureSeen ==
    /\ last.op = "order_exception"
    /\ last.signal.side \in {"Buy", "Sell"}
    /\ LockFree
    /\ pc = "get"
    /\ is_running

LockedWhileRunning ==
    is_running /\ trade_in_progress

\* C7: under fair scheduling the router does not stay locked for ever while
\* it runs: whenever it is running with the lock set, the lock is released
\* later (by the failure branch, by an unlock timer, or by the start() that
\* follows a stop() which cancelled the submission) or the router is stopped.
LockEventuallyReleased ==
    LockedWhileRunning ~> ~LockedWhileRunning

\* an unlock timer has released the lock of a running router
TimerReleasedLock ==
    /\ last.op = "unlock_after_delay"
    /\ is_running
    /\ LockFree
    /\ \E s \in Symbols : order_times[s].accepted # NoTime

\* C8 as stated: a BUY signal is not submitted when a BUY order for the same
\* symbol was submitted less than the cooldown window before.
OneBuyPerWindow ==
    [][ ( /\ Dequeued
          /\ Head(signal_queue).side = "Buy"
          /\ pc' = "place" )
        => \/ order_times[Head(signal_queue).symbol].buy_sent = NoTime
           \/ now - order_times[Head(signal_queue).symbol].buy_sent
                  >= TRADE_COOLDOWN_SECONDS ]_vars

\* C8: after an order for a symbol was accepted (an order id came back),
\* every signal for that symbol that is not an exit-monitor signal and is
\* taken off the queue less than the cooldown window later is dropped: no
\* lock, no order request.
CooldownDropsSignals ==
    [][ ( /\ Dequeued
          /\ Head(signal_queue).signal_type # "exit_monitor"
          /\ order_times[Head(signal_queue).symbol].accepted # NoTime
          /\ now - order_times[Head(signal_queue).symbol].accepted
                 < TRADE_COOLDOWN_SECONDS )
        => NoSubmission ]_vars

\* a BUY was dropped by the cooldown half a window after the accepted order
CooldownDropSeen ==
    /\ last.op = "cooldown"
    /\ last.signal.side = "Buy"
    /\ order_times[last.signal.symbol].accepted # NoTime
    /\ now - order_times[last.signal.symbol].accepted > 0
    /\ now - order_times[last.signal.symbol].accepted < TRADE_COOLDOWN_SECONDS
    /\ pc = "get"

\* C9: when the exit monitor decides to exit a symbol that is in its
\* cooldown window, with the lock free, the order book present and the
\* holding above the sell dust threshold, its exit_monitor SELL signal is on
\* the queue for the consumer to submit.
ExitSignalReachesRouter ==
    ( /\ last.op \in {"exit_signal", "exit_signal_error"}
      /\ _is_in_cooldown(last.signal.symbol)
      /\ LockFree
      /\ orderbooks[last.signal.symbol] # NoBook
      /\ ~SellBelowDust(last.signal.symbol) )
    => \E i \in 1..Len(signal_queue) : signal_queue[i] = last.signal

IsPrefix(p, q) ==
    Len(p) <= Len(q) /\ SubSeq(q, 1, Len(p)) = p

\* C10: the queue is first in, first out: a producer's step only appends to
\* the tail, and the consumer's step removes the head, which is the signal
\* it evaluates; no signal overtakes one that was enqueued before it.
FifoOrder ==
    [][ \/ IsPrefix(signal_queue, signal_queue')
        \/ /\ signal_queue' = Tail(signal_queue)
           /\ last'.signal = Head(signal_queue) ]_vars

\* the consumer handled a scanner signal while a signal of the trend
\* aggregator, enqueued after it, is still waiting
FifoSeen ==
    /\ last.signal.signal_type = "scalping"
    /\ last.op \in {"buy", "buy_held", "cooldown", "skip_locked"}
    /\ signal_queue # << >>
    /\ Head(signal_queue).signal_type = "trend"

StartCall ==
    last' # last /\ last'.op \in {"start", "start_ignored"}

StopCall ==
    last' # last /\ last'.op \in {"stop", "stop_ignored"}

\* C11: start() on a router that is running, and stop() on a router that is
\* not running, change nothing: no task handle, no position of the
\* consumer, not the trade lock, the cooldown table, the queue, the pending
\* unlock timers or the published status.
RedundantCallsNoOp ==
    [][ ( \/ is_running /\ StartCall
          \/ ~is_running /\ StopCall )
        => UNCHANGED << routerVars, signal_queue, storeVars >> ]_vars

\* start() returned early on a router that holds the lock for an order in
\* flight while a signal waits on the queue
RedundantStartSeen ==
    /\ last.op = "start_ignored"
    /\ is_running
    /\ trade_in_progress
    /\ pc = "place"
    /\ signal_queue # << >>

\* C12: the status 'stopped' is published only after the consumer, the
\* scanner and the exit monitor have terminated: in every step that ends
\* with the status 'stopped', none of the three tasks has code left to run,
\* neither before nor after the step.
StoppedAfterTermination ==
    [][ status' = "stopped"
        => /\ ~Executing(strategy_task) /\ ~Executing(strategy_task')
           /\ ~Executing(signal_gen_task) /\ ~Executing(signal_gen_task')
           /\ ~Executing(position_monitor_task)
           /\ ~Executing(position_monitor_task') ]_vars

\* stop() published 'stopped' for a run whose consumer was cancelled while
\* its order request was in flight
StoppedRunSeen ==
    /\ last.op = "stop"
    /\ status = "stopped"
    /\ strategy_task = "none"
    /\ trade_in_progress
    /\ pc = "none"

\* the halting condition of the daily limits: the loss limit is reached, or
\* the equity is positive and the profit target is reached
DailyLimitReached ==
    \/ pnl_day <= -config.day_loss_limit_usd
    \/ /\ total_equity > 0
       /\ pnl_day * 100 >= total_equity * config.day_profit_target_pct

\* C13: is_globally_ok_to_trade() is false exactly when the daily P&L is at
\* or below minus the loss limit, or the equity is positive and the daily
\* P&L is at or above the profit target, and true otherwise: the consumer
\* skips a dequeued signal for the kill switch in exactly those states.
GloballyOkExactly ==
    [][ Dequeued => ( last'.op = "skip_kill_switch" <=> DailyLimitReached ) ]_vars

\* a signal was skipped with the daily P&L exactly at minus the loss limit
LossLimitBoundarySeen ==
    /\ last.op = "skip_kill_switch"
    /\ pnl_day = -config.day_loss_limit_usd
    /\ ~is_globally_ok_to_trade

\* the evaluation of the dequeued signal asked the risk engine for admission
AdmissionAsked ==
    /\ Dequeued
    /\ last'.op \in {"buy", "buy_no_size", "buy_rejected_max_active_symbols",
                     "buy_rejected_daily_limit"}

\* C14: a BUY of a symbol that is not held is rejected, for the limit of
\* active symbols, whenever the number of held symbols is at or above
\* max_active_symbols; it is allowed when the number is below the limit and
\* trading is globally allowed; a BUY of a symbol that is held is not
\* rejected for the number of held symbols.
MaxActiveSymbolsAdmission ==
    [][ AdmissionAsked
        => LET held == BaseCurrency(last'.signal.symbol) \in HeldSymbols
               full == Cardinality(HeldSymbols) >= config.max_active_symbols
               rejected == last'.op = "buy_rejected_max_active_symbols"
           IN  /\ (~held /\ full) => rejected
               /\ (~full /\ ~DailyLimitReached) => last'.op \in {"buy", "buy_no_size"}
               /\ held => ~rejected ]_vars

\* with ETH the only coin held and a limit of one symbol, a BUY of BTCUSDT
\* was rejected for the limit
MaxActiveSymbolsRejectSeen ==
    /\ last.op = "buy_rejected_max_active_symbols"
    /\ last.signal.symbol = "BTCUSDT"
    /\ HeldSymbols = {"ETH"}
    /\ config.max_active_symbols = 1

\* C15: the notional of a BUY is min(total_equity * risk_per_trade,
\* available_balance), so it never exceeds the available balance; it is 0,
\* and no order is sent, when the available balance is below the trading
\* buffer or that size is below the minimum order value of the symbol.
NotionalCappedByAvailable ==
    [][ ( Dequeued /\ last'.op \in {"buy", "buy_no_size"} )
        => LET size == Min((total_equity * config.risk_per_trade) \div 100,
                           available_balance)
               none == \/ available_balance < MIN_TRADING_BUFFER_USD
                       \/ size < MinNotional(last'.signal.symbol)
           IN  IF none
               THEN last'.op = "buy_no_size" /\ NoSubmission
               ELSE /\ last'.op = "buy"
                    /\ last'.notional = size
                    /\ last'.notional <= available_balance
                    /\ requests' = 1 ]_vars

\* with equity 1000, a risk of 10 percent and 50 available, a BUY of ETHUSDT
\* was sent with a notional of 50
NotionalCappedSeen ==
    /\ last.op = "buy"
    /\ last.signal.symbol = "ETHUSDT"
    /\ total_equity = 1000
    /\ config.risk_per_trade = 10
    /\ available_balance = 50
    /\ last.notional = 50

\* the exit monitor has run a cycle in this step
MonitorCycled ==
    exit_checks' # exit_checks

\* the cycle reached the exit checks of the position of the symbol
ExitChecksReached(symbol) ==
    exit_checks'[symbol].outcome
        \in {"take_profit", "stop_loss", "trailing_stop", "timeout", "timeout_error"}

\* current_price < highest_price_since_entry * (1 - trailing_sl_bps / 10000)
TrailingStopReached(symbol) ==
    CurrentPrice(symbol) * 10000
        < positions[symbol].highest_price_since_entry
              * (10000 - config.trailing_sl_bps)

ExitSignal(symbol) ==
    MakeSignal(symbol, "Sell", "exit_monitor")

ExitSignalsQueued(q, symbol) ==
    Cardinality({ i \in 1..Len(q) : q[i] = ExitSignal(symbol) })

\* C16: in a cycle of the exit monitor the checks of a position are taken in
\* the order take profit, stop loss, trailing stop, timeout, the first that
\* triggers decides, and at most one exit signal is enqueued for the
\* position.
ExitChecksInPriorityOrder ==
    [][ MonitorCycled
        => \A s \in Symbols :
              ExitChecksReached(s)
              => /\ TakeProfitReached(s) => exit_checks'[s].outcome = "take_profit"
                 /\ (~TakeProfitReached(s) /\ StopLossReached(s))
                       => exit_checks'[s].outcome = "stop_loss"
                 /\ ( /\ ~TakeProfitReached(s)
                      /\ ~StopLossReached(s)
                      /\ TrailingStopReached(s) )
                       => exit_checks'[s].outcome = "trailing_stop"
                 /\ ExitSignalsQueued(signal_queue', s)
                       <= ExitSignalsQueued(signal_queue, s) + 1 ]_vars

\* C17: when the exit monitor checks a position whose best bid puts pnl_bps
\* at or above default_tp_bps, a SELL signal of the exit monitor for the
\* symbol is on the queue at the end of the cycle.
TakeProfitSignalQueued ==
    [][ MonitorCycled
        => \A s \in Symbols :
              (ExitChecksReached(s) /\ TakeProfitReached(s))
              => ExitSignalsQueued(signal_queue', s) > 0 ]_vars

\* C18: when the exit monitor checks a position for which neither the take
\* profit nor the stop loss triggers and the price is below the high-water
\* mark less trailing_sl_bps, a SELL signal of the exit monitor for the
\* symbol is on the queue at the end of the cycle.
TrailingStopSignalQueued ==
    [][ MonitorCycled
        => \A s \in Symbols :
              ( /\ ExitChecksReached(s)
                /\ ~TakeProfitReached(s)
                /\ ~StopLossReached(s)
                /\ TrailingStopReached(s) )
              => ExitSignalsQueued(signal_queue', s) > 0 ]_vars

\* C19: the high-water mark of a position is never below its entry price,
\* never decreases while the position exists, and is at or above the price
\* at which the exit monitor has checked the position.
HighWaterMarkRatchets ==
    [][ \A s \in Symbols :
           positions'[s].kind = "position"
           => /\ positions'[s].highest_price_since_entry >= positions'[s].entry_price
              /\ ( /\ positions[s].kind = "position"
                   /\ positions'[s].entry_price = positions[s].entry_price )
                   => positions'[s].highest_price_since_entry
                         >= positions[s].highest_price_since_entry
              /\ (MonitorCycled /\ ExitChecksReached(s))
                   => positions'[s].highest_price_since_entry
                         >= exit_checks'[s].price ]_vars

\* an exception was raised in this step while the consumer evaluated or
\* executed a signal
SignalRaised ==
    /\ last' # last
    /\ last'.op \in {"evaluate_exception", "order_exception", "buy_record_failed"}

\* C20: an exception raised while a signal is evaluated or executed does
\* not end the consumer loop, which goes on to wait or to take the next
\* signal, and puts a new entry at the head of the recent-errors list.
ExceptionCaughtAndReported ==
    [][ SignalRaised
        => /\ Runs(strategy_task')
           /\ pc' \in {"get", "error_sleep"}
           /\ recent_errors' # << >>
           /\ recent_errors' = add_error(Head(recent_errors')) ]_vars

\* an order request for a new signal is sent in this step
Submitted ==
    requests = 0 /\ requests' = 1

\* C21: a signal dequeued while the trade lock is held is discarded: the
\* step sends no order and keeps the signal nowhere (it is not the signal in
\* execution and not on the queue again), and every order that is sent is
\* for the signal dequeued in that very step, with the lock free.
LockedSignalDiscarded ==
    [][ /\ (Dequeued /\ trade_in_progress)
            => /\ NoSubmission
               /\ signal_queue' = Tail(signal_queue)
        /\ Submitted
            => /\ Dequeued
               /\ ~trade_in_progress
               /\ signal' = Head(signal_queue) ]_vars

\* a signal was dropped for the lock of the unlock timer of an accepted
\* order, and the queue is empty
LockedSignalDropSeen ==
    /\ last.op = "skip_locked"
    /\ trade_in_progress
    /\ pc = "get"
    /\ unlock_timers > 0
    /\ signal_queue = << >>


-----------------------------------------------------------------------------
(* The wallet poller *)

NextWallet ==
    \/ \E response \in Responses : WalletFetch(response)
    \/ WalletApply

SpecWallet ==
    Init /\ [][NextWallet]_vars

\* C22: when the wallet-balance fetch raises or returns no data,
\* update_wallet_balance leaves total equity, available balance, daily P&L,
\* the per-coin balances, the held symbols and the active positions as they
\* were before the call.
FailedFetchKeepsWallet ==
    [][ balance_data.outcome \in {"raised", "empty"}
            => /\ total_equity' = total_equity
               /\ available_balance' = available_balance
               /\ pnl_day' = pnl_day
               /\ balances' = balances
               /\ HeldSymbols' = HeldSymbols
               /\ positions' = positions ]_vars

FailedFetchSeen ==
    /\ last.op \in {"wallet_raised", "wallet_empty"}
    /\ balance_data = NoResponse
    /\ total_equity = 700
    /\ pnl_day = -300
    /\ balances = [c \in Coins |-> IF c = "ETH" THEN 2 ELSE 0]
    /\ positions["ETHUSDT"] = HoldingEntry

\* C23: when one coin entry of a balance snapshot is malformed, only that coin
\* is skipped: every well-formed coin of the snapshot is stored in the
\* balances, and the held symbols and the active positions are those of the
\* well-formed coins with a positive balance.
MalformedCoinSkippedAlone ==
    [][ balance_data.outcome = "data"
            => /\ \A c \in Coins :
                    balance_data.coin[c] # MalformedCoin
                        => balances'[c] = balance_data.coin[c]
               /\ HeldSymbols' = { c \in Coins :
                                     /\ balance_data.coin[c] # MalformedCoin
                                     /\ balance_data.coin[c] > 0 }
               /\ \A s \in Symbols :
                    positions'[s] =
                        IF /\ balance_data.coin[BaseCurrency(s)] # MalformedCoin
                           /\ balance_data.coin[BaseCurrency(s)] > 0
                        THEN HoldingEntry
                        ELSE NoPosition ]_vars

MalformedCoinSkipSeen ==
    /\ last.op = "wallet_updated_coin_skipped"
    /\ balances["ETH"] = 2
    /\ balances["BTC"] = 0
    /\ positions["ETHUSDT"] = HoldingEntry
    /\ positions["BTCUSDT"] = NoPosition


-----------------------------------------------------------------------------
(* The risk configuration *)

\* the settings' configuration, and the one of the API's documentation
RiskConfigs ==
    { _load_config_from_settings,
      [_load_config_from_settings EXCEPT !.day_loss_limit_usd = 250,
                                         !.max_active_symbols = 3,
                                         !.default_tp_bps = 60,
                                         !.default_sl_bps = 30,
                                         !.trailing_sl_bps = 20] }

NextConfig ==
    \/ Start
    \/ TrendProducer
    \/ Consumer
    \/ UnlockAfterDelay
    \/ \E c \in RiskConfigs : UpdateRiskConfig(c)

SpecConfig ==
    Init /\ [][NextConfig]_vars

\* C24: after update_config(c) has returned, get_config() returns c and the
\* risk_config of the shared system state is c too.
ConfigReplacedAndPublished ==
    risk_request # << >>
        => /\ config = Head(risk_request)
           /\ risk_config = risk_request

\* what holds after update_config(c): the engine's configuration is c
ConfigReplaced ==
    risk_request # << >> => config = Head(risk_request)

\* after an update the published configuration is still None
ConfigNotPublishedSeen ==
    /\ risk_request # << >>
    /\ config = Head(risk_request)
    /\ config.day_loss_limit_usd = 250
    /\ risk_config = << >>


-----------------------------------------------------------------------------
(* The entry price of a bought position *)

NextFill ==
    \/ Start
    \/ TrendProducer
    \/ StrategyLoop
    \/ OrderAccepted
    \/ BuyRecordedSlipped
    \/ UnlockAfterDelay
    \/ Tick

SpecFill ==
    Init /\ [][NextFill]_vars

\* C26: every position record that a buy execution creates or updates has
\* entry_price and highest_price_since_entry equal to the average fill price
\* of the order history, which is a valid one; when the recording stores
\* nothing, no position changes.
EntryPriceIsFillPrice ==
    [][ pc = "buy_sleep" /\ pc' = "get"
            => /\ \A s \in Symbols :
                    positions'[s] # positions[s]
                        => /\ s = signal.symbol
                           /\ last'.op = "buy_recorded"
               /\ last'.op = "buy_recorded"
                    => /\ ValidFill(last'.avgPrice)
                       /\ positions'[signal.symbol] =
                            [kind |-> "position",
                             entry_price |-> last'.avgPrice,
                             highest_price_since_entry |-> last'.avgPrice]
               /\ last'.op # "buy_recorded" => positions' = positions ]_vars

\* a position recorded at a fill price next to the best bid
SlippedFillRecorded ==
    /\ last.op = "buy_recorded"
    /\ last.avgPrice = CurrentPrice(last.signal.symbol) + 1
    /\ positions[last.signal.symbol].kind = "position"
    /\ positions[last.signal.symbol].entry_price = last.avgPrice


-----------------------------------------------------------------------------
(* The store under its callers *)

Trades ==
    [symbol : Symbols, side : {"Buy", "Sell"}]

ErrorMessages ==
    {"Strategy loop error"}

\* wallets with BTC held or not, at either equity
StoreSnapshots ==
    { s \in Snapshots : /\ s.totalAvailableBalance = 150
                        /\ s.coin["ETH"] = 0
                        /\ s.coin["BTC"] \in {0, 2} }

NextStore ==
    \/ Start
    \/ Stop
    \/ \E s \in Symbols, bid \in {NoBook, 4} : UpdateOrderbook(s, bid)
    \/ \E snapshot \in StoreSnapshots : UpdateWalletBalance(snapshot)
    \/ \E trade \in Trades : AddTrade(trade)
    \/ \E m \in ErrorMessages : AddError(m)
    \/ \E equity \in EquityLevels : ResetDailyState(equity)

SpecStore ==
    Init /\ [][NextStore]_vars

\* reset_daily_state is called in this step
ResetCall ==
    /\ last'.op = "reset_daily_state"
    /\ \/ last.op # "reset_daily_state"
       \/ current_equity' # current_equity
       \/ initial_total_equity' # initial_total_equity

\* C25: reset_daily_state(e) sets the P&L baseline to e and the daily P&L to
\* 0, and leaves the recent-trades and recent-errors logs, the balances, the
\* order books and the router status unchanged.
ResetKeepsLogs ==
    [][ ResetCall
            => /\ initial_total_equity' = current_equity'
               /\ pnl_day' = 0
               /\ recent_trades' = recent_trades
               /\ recent_errors' = recent_errors
               /\ balances' = balances
               /\ orderbooks' = orderbooks
               /\ status' = status ]_vars

\* after a reset to an equity other than the current one, with both logs
\* kept, on a running router
ResetWithLogsSeen ==
    /\ last.op = "reset_daily_state"
    /\ current_equity = 700
    /\ initial_total_equity = 700
    /\ total_equity = 1000
    /\ pnl_day = 0
    /\ Len(recent_trades) = MaxEvents
    /\ recent_errors # << >>
    /\ status = "running"


-----------------------------------------------------------------------------
(* The scanner on the books as they are *)

NextScan ==
    \/ Start
    \/ Stop
    \/ \E s \in Symbols, pressure \in Pressures : UpdateImbalance(s, pressure)
    \/ \E snapshot \in CoinSnapshots : UpdateWalletBalance(snapshot)
    \/ ScannerCycleOnBooks

SpecScan ==
    Init /\ [][NextScan]_vars

\* a scanner cycle put signals on the queue or ended in an exception
ScanStep ==
    \/ signal_queue' # signal_queue
    \/ last'.op = "scan_error" /\ last.op # "scan_error"

\* the check of the symbol finds a BUY signal: the book leans to the bids and
\* the asset is not held above the dust value
WouldEmitBuy(symbol) ==
    /\ orderbooks[symbol] # NoBook
    /\ ~(WalletBalance(symbol) > 0 /\ AssetValueUsd(symbol) >= MIN_ASSET_VALUE_USD)
    /\ imbalance[symbol] = "bid"

\* C27: in one scanner cycle a failure while checking one symbol does not keep
\* the other symbols from being checked: every symbol whose check finds a
\* signal has it put on the queue in that cycle.
ScanFailureIsolated ==
    [][ ScanStep
            => \A s \in Symbols :
                  WouldEmitBuy(s)
                      => \E i \in (Len(signal_queue) + 1)..Len(signal_queue') :
                            signal_queue'[i] = MakeSignal(s, "Buy", "scalping") ]_vars

\* the cycle failed on BTCUSDT and the BUY that ETHUSDT's book calls for is
\* not on the queue
ScanAbortedSeen ==
    /\ last.op = "scan_error"
    /\ imbalance = [s \in Symbols |-> IF s = "BTCUSDT" THEN "ask" ELSE "bid"]
    /\ WouldEmitBuy("ETHUSDT")
    /\ signal_queue = << >>


-----------------------------------------------------------------------------
(* The kill switch as operators see it *)

BreachMessages ==
    {"DAILY LOSS LIMIT REACHED!", "DAILY PROFIT TARGET REACHED!"}

\* C28: once the consumer has found the daily loss limit or the daily profit
\* target breached, the published status is no longer "running" or the
\* recent-errors list has an entry for the breach.
BreachObservable ==
    last.op = "skip_kill_switch"
        => \/ status # "running"
           \/ \E i \in 1..Len(recent_errors) : recent_errors[i] \in BreachMessages

\* the consumer dropped a signal for the loss limit, and neither the status
\* nor the error list shows it
BreachUnreportedSeen ==
    /\ last.op = "skip_kill_switch"
    /\ pnl_day <= -config.day_loss_limit_usd
    /\ status = "running"
    /\ recent_errors = << >>


-----------------------------------------------------------------------------
(* async_retry *)

DelayLevels ==
    {1, 2}

BackoffLevels ==
    {1, 2, 3}

\* a call of a wrapper with any arguments
InitRetry ==
    /\ InitRouter
    /\ InitStoreLoaded
    /\ balance_data = NoResponse
    /\ current_equity = NoEquity
    /\ imbalance = [s \in Symbols |-> "flat"]
    /\ recent_trades = << >>
    /\ risk_config = << >>
    /\ risk_request = << >>
    /\ \E attempts \in 1..MaxAttempts, delay \in DelayLevels,
          backoff \in BackoffLevels :
          retry = RetryCall(attempts, delay, backoff)

NextRetry ==
    \/ FuncReturns
    \/ FuncRaises
    \/ SleepOver
    \/ RetryCancelled

\* func and the sleeps end
FairSpecRetry ==
    InitRetry /\ [][NextRetry]_vars /\ WF_vars(FuncReturns \/ FuncRaises)
              /\ WF_vars(SleepOver)

RECURSIVE Power(_, _)
Power(b, k) ==
    IF k = 0 THEN 1 ELSE b * Power(b, k - 1)

RetryOver ==
    retry.pc \in {"returned", "raised", "cancelled"}

HaltedSignalHasNoEffect ==
    [][ (Dequeued /\ ~is_globally_ok_to_trade)
            => /\ NoSubmission
               /\ requests' = requests
               /\ trade_in_progress' = trade_in_progress
               /\ pending_symbol' = pending_symbol
               /\ last_trade_times' = last_trade_times ]_vars

\* a SELL of the held coin dropped at the loss limit by a consumer that was
\* free to trade
HaltedSellDroppedSeen ==
    /\ last.op = "skip_kill_switch"
    /\ last.signal.side = "Sell"
    /\ WalletBalance(last.signal.symbol) > 0
    /\ ~is_globally_ok_to_trade
    /\ status = "running"
    /\ pc = "get"
    /\ ~trade_in_progress
    /\ last_trade_times = [s \in Symbols |-> NoTime]


-----------------------------------------------------------------------------
(* Frame of the executions *)

\* the signal at the head of the queue is a BUY that the evaluation passes
\* on to _execute_buy_trade
ApprovedBuy ==
    /\ signal_queue # << >>
    /\ Head(signal_queue).side = "Buy"
    /\ ~TradingHalted
    /\ ~TradeInProgress
    /\ ~_is_in_cooldown(Head(signal_queue).symbol)
    /\ orderbooks[Head(signal_queue).symbol] \notin {NoBook, MalformedBook}
    /\ ~HeldAboveDust(Head(signal_queue).symbol)
    /\ is_trade_allowed(Head(signal_queue).symbol).allow

\* C31: when the notional size computed for an approved BUY is zero or
\* negative, the buy execution returns without sending an order, without
\* taking the trade lock and without writing the symbol's last-trade time.
NoSizeNoOrder ==
    [][ ( /\ Dequeued
          /\ ApprovedBuy
          /\ calculate_notional_size(Head(signal_queue).symbol) <= 0 )
            => /\ NoSubmission
               /\ last_trade_times' = last_trade_times ]_vars

\* an approved BUY of BTCUSDT was given up for its size (50 available, below
\* the minimum order value of 100)
NoSizeSeen ==
    /\ last.op = "buy_no_size"
    /\ last.signal.symbol = "BTCUSDT"
    /\ available_balance = 50
    /\ calculate_notional_size("BTCUSDT") = 0
    /\ is_trade_allowed("BTCUSDT").allow
    /\ LockFree
    /\ pc = "get"
    /\ last_trade_times["BTCUSDT"] = NoTime


-----------------------------------------------------------------------------
(* The wallet under its concurrent refreshes *)

\* two wallets that differ in every field, the second one also with a coin
\* entry that is rejected
RefreshSnapshots ==
    { [totalEquity |-> 1000, totalAvailableBalance |-> 150,
       coin |-> [c \in Coins |-> IF c = "BTC" THEN 2 ELSE 0]],
      [totalEquity |-> 700, totalAvailableBalance |-> 0,
       coin |-> [c \in Coins |-> IF c = "ETH" THEN 2 ELSE 0]],
      [totalEquity |-> 700, totalAvailableBalance |-> 0,
       coin |-> [c \in Coins |-> IF c = "ETH" THEN 2 ELSE MalformedCoin]] }

RefreshResponses ==
    { r \in Responses :
         r.outcome = "data"
            => \E s \in RefreshSnapshots :
                  /\ r.totalEquity = s.totalEquity
                  /\ r.totalAvailableBalance = s.totalAvailableBalance
                  /\ r.coin = s.coin }

\* the poller's refresh, suspended in its fetch, against the daily reset
\* task and the control API
NextRefresh ==
    \/ Start
    \/ Stop
    \/ \E response \in RefreshResponses : WalletFetch(response)
    \/ WalletApply
    \/ \E response \in RefreshResponses : DailyResetTask(response)

SpecRefresh ==
    Init /\ [][NextRefresh]_vars

\* the aggregate is the one of the snapshot
FromSnapshot(s) ==
    /\ total_equity = s.totalEquity
    /\ available_balance = s.totalAvailableBalance
    /\ \E baseline \in {initial_total_equity, s.totalEquity} \cup EquityLevels :
          pnl_day = s.totalEquity - baseline
    /\ balances = ParsedCoins(s)
    /\ HeldSymbols = { c \in Coins : ParsedCoins(s)[c] > 0 }
    /\ positions = [sym \in Symbols |->
                       IF ParsedCoins(s)[BaseCurrency(sym)] > 0
                       THEN HoldingEntry
                       ELSE NoPosition]

-----------------------------------------------------------------------------
(* The daily P&L and its baseline, from the startup on *)

\* the startup has set the baseline
StartupDone ==
    last.op # "init"

NextBaseline ==
    \/ \E response \in RefreshResponses : Startup(response)
    \/ /\ StartupDone
       /\ \/ \E response \in RefreshResponses : WalletFetch(response)
          \/ WalletApply
          \/ \E response \in RefreshResponses : DailyResetTask(response)
          \/ Stop

InitBaseline ==
    InitRouter /\ InitServices /\ InitStore

SpecBaseline ==
    InitBaseline /\ [][NextBaseline]_vars

\* C33: once the initial equity has been set, whatever the interleaving of
\* wallet refreshes and daily resets, the daily P&L is the total equity less
\* the initial total equity.
PnlMatchesBaseline ==
    StartupDone => pnl_day = total_equity - initial_total_equity

\* the first refresh failed, the baseline was set to 0, and the poller's
\* refresh has left the daily P&L at 0 with an equity of 1000
PnlWithoutBaselineSeen ==
    /\ last.op = "wallet_updated"
    /\ initial_total_equity = 0
    /\ total_equity = 1000
    /\ pnl_day = 0
    /\ is_globally_ok_to_trade


\* the BUY signals of the scanner for the symbol that are on the queue
ScalpingBuys(q, symbol) ==
    { i \in 1..Len(q) : q[i] = MakeSignal(symbol, "Buy", "scalping") }

\* the base asset of the symbol is held with a value at or above the
\* holding threshold
HeldAtOrAboveThreshold(symbol) ==
    /\ WalletBalance(symbol) > 0
    /\ orderbooks[symbol] # NoBook
    /\ AssetValueUsd(symbol) >= MIN_ASSET_VALUE_USD

\* C34: the scanner never puts a BUY signal on the queue for a symbol whose
\* base asset is held with a value at or above the holding threshold: what
\* a step adds to the queue for such a symbol is no BUY of the scanner.
ScannerNoBuyOfHeld ==
    [][ \A s \in Symbols :
           HeldAtOrAboveThreshold(s)
               => /\ Cardinality(ScalpingBuys(signal_queue', s))
                        <= Cardinality(ScalpingBuys(signal_queue, s))
                  /\ \A i \in (Len(signal_queue) + 1)..Len(signal_queue') :
                        signal_queue'[i].symbol = s
                            => signal_queue'[i].side = "Sell" ]_vars

\* both books lean to the bids, BTC is held for 12 USD and ETH is not held:
\* the cycle has put the BUY of ETHUSDT on the queue, and none of BTCUSDT
HeldSymbolSkippedSeen ==
    /\ imbalance = [s \in Symbols |-> "bid"]
    /\ WalletBalance("BTCUSDT") = 3
    /\ HeldAtOrAboveThreshold("BTCUSDT")
    /\ WalletBalance("ETHUSDT") = 0
    /\ signal_queue = << MakeSignal("ETHUSDT", "Buy", "scalping") >>
    /\ Runs(signal_gen_task)


-----------------------------------------------------------------------------
(* The kill switch across the daily reset *)

\* a fetch that raises, and the wallet of the loaded store at either equity
KillResponses ==
    { r \in Responses :
         IF r.outcome = "data"
         THEN /\ r.totalAvailableBalance = 150
              /\ r.coin = [c \in Coins |-> IF c = "BTC" THEN 2 ELSE 0]
         ELSE r.outcome = "raised" }

\* the router is started by the reset task only, and every order comes back
\* without an id
NextReset ==
    \/ Stop
    \/ TrendProducer
    \/ StrategyLoop
    \/ OrderWithoutId
    \/ \E response \in KillResponses : WalletFetch(response)
    \/ WalletApply
    \/ \E response \in KillResponses : DailyResetTask(response)

SpecReset ==
    Init /\ [][NextReset]_vars

\* the daily reset task was the last to act on the router or on the wallet
AfterDailyReset ==
    last.op \in {"daily_reset", "daily_reset_halted"}

-----------------------------------------------------------------------------
(* Whose lock an unlock timer releases *)

\* an _unlock_after_delay task ends its sleep in this step
TimerFired ==
    unlock_timers' = unlock_timers - 1

\* C36: the trade lock taken for a trade is released only by that trade: an
\* unlock timer scheduled by an earlier trade never releases the lock of a
\* later one.  While the consumer is submitting or recording a trade, that
\* trade has scheduled no timer yet, so that no timer releases the lock then.
TimerReleasesOwnLock ==
    [][ (TimerFired /\ trade_in_progress /\ ~trade_in_progress')
            => pc \notin {"place", "buy_sleep"} ]_vars

\* the timer of an earlier run has released the lock of the order request
\* that is in flight
ForeignUnlockSeen ==
    /\ last.op = "unlock_after_delay"
    /\ pc = "place"
    /\ requests = 1
    /\ ~trade_in_progress
    /\ pending_symbol = NoSymbol


-----------------------------------------------------------------------------
(* Loops per router *)

\* runs that may lose their handles
MaxOrphans ==
    1

\* a caller of start() (the control API or the daily reset task) runs while
\* no stop() is suspended, or in the window between the completion of the
\* gather of a stop() and the resumption of that stop()
StartersMayRun ==
    \/ stop_pc = "idle"
    \/ stop_pc = "resume" /\ orphan_tasks < MaxOrphans

\* start() and stop() called from the control API, the daily reset task and
\* the shutdown, with stop() taken step by step
NextRace ==
    \/ StartersMayRun /\ Start
    \/ StartersMayRun /\ \E response \in KillResponses : DailyResetTask(response)
    \/ StopBegin
    \/ TaskCancelled
    \/ GatherDone
    \/ StopResume
    \/ TrendProducer

SpecRace ==
    Init /\ [][NextRace]_vars

\* the loops of one kind that are alive: the one the handle refers to and
\* those of the runs without a handle
Loops(task) ==
    (IF Executing(task) THEN 1 ELSE 0) + orphan_tasks

\* C37: under any interleaving of start() and stop() calls at most one
\* consumer loop, one scanner loop and one exit-monitor loop exist at any
\* time, and a stop() that has returned has left no loop alive
OneLoopOfEachKind ==
    /\ Loops(strategy_task) <= 1
    /\ Loops(signal_gen_task) <= 1
    /\ Loops(position_monitor_task) <= 1
    /\ (last.op = "stop" /\ stop_pc = "idle")
          => /\ Loops(strategy_task) = 0
             /\ Loops(signal_gen_task) = 0
             /\ Loops(position_monitor_task) = 0

\* a start() ran between the completion of the gather of a stop() and the
\* resumption of that stop(), and a second start() ran after that stop()
\* had returned: two consumer loops read the queue
TwoConsumerLoopsSeen ==
    /\ orphan_tasks = 1
    /\ strategy_task = "running"
    /\ stop_pc = "idle"
    /\ status = "running"


-----------------------------------------------------------------------------
(* The queue across a restart *)

\* the trend aggregator delivers a signal while the router runs, and not in
\* the step that follows a start(): the queue that the consumer finds in the
\* step after a start() is the queue the last stop() left
SignalWhileRunning ==
    /\ is_running
    /\ last.op # "start"
    /\ TrendProducer

NextStale ==
    \/ Start
    \/ Stop
    \/ SignalWhileRunning
    \/ Consumer
    \/ UnlockAfterDelay

SpecStale ==
    Init /\ [][NextStale]_vars

\* C38: after a stop() followed by a start() no signal that was enqueued
\* before the stop() is evaluated or executed by the new consumer loop: the
\* signal it takes from the queue that the stop() left is not evaluated
StaleSignalNotEvaluated ==
    [][ (last.op = "start" /\ Dequeued)
            => /\ NoSubmission
               /\ last'.op \in {"skip_kill_switch", "skip_locked"} ]_vars

\* start() has spawned a consumer on a queue that holds a signal of the run
\* which the last stop() ended
StaleSignalsAtStart ==
    /\ last.op = "start"
    /\ pc = "get"
    /\ signal_queue # << >>


-----------------------------------------------------------------------------
(* What starts a cooldown *)

\* C39: the last-trade time of a symbol is written only when an order
\* submission for that symbol comes back with an order id: every other step
\* (a dropped or rejected signal, a submission that failed or was sent
\* again) leaves the cooldown table as it was
CooldownOnlyOnOrderId ==
    [][ \A s \in Symbols :
          last_trade_times'[s] # last_trade_times[s]
             => /\ pc = "place"
                /\ signal.symbol = s
                /\ last'.op = "order_accepted"
                /\ last_trade_times'[s] = now ]_vars

\* the last attempt of a submission has failed: the lock is free again and
\* the symbol has still never been in cooldown
FailedSubmissionNoCooldownSeen ==
    /\ last.op = "order_exception"
    /\ last_trade_times[last.signal.symbol] = NoTime
    /\ LockFree
    /\ pc = "get"


-----------------------------------------------------------------------------
(* From an exit condition to the SELL order *)

\* a best bid at which the take profit of either configuration is reached
\* on a position filled at FillPrice
TakeProfitBid ==
    10060

\* the store of InitMonitor with both books at the take-profit bid
InitExit ==
    /\ InitRouter
    /\ InitServices
    /\ balances \in [Coins -> {0, 2}]
    /\ balances["ETH"] > 0
    /\ orderbooks = [s \in Symbols |-> TakeProfitBid]
    /\ total_equity = 1000
    /\ available_balance = 150
    /\ initial_total_equity = 1000
    /\ pnl_day = 0
    /\ positions = [s \in Symbols |->
                       IF balances[BaseCurrency(s)] > 0
                       THEN Position(s, FillPrice).record
                       ELSE NoPosition]
    /\ recent_errors = << >>
    /\ config \in MonitorConfigs

\* the router, never stopped, with the exit monitor and the trend
\* aggregator as producers, on books that stay where they are and an
\* exchange that accepts every order
NextExit ==
    \/ Start
    \/ ExitMonitorCycle
    \/ TrendProducer
    \/ StrategyLoop
    \/ OrderAccepted
    \/ BuyRecorded
    \/ UnlockAfterDelay

\* the event loop runs every task that is ready: the monitor's sleep ends,
\* the consumer's get() returns, the order request is answered, the sleeps
\* of the execution and of the unlock timers end
ExitFairness ==
    /\ WF_vars(ExitMonitorCycle)
    /\ WF_vars(StrategyLoop)
    /\ WF_vars(OrderAccepted)
    /\ WF_vars(BuyRecorded)
    /\ WF_vars(UnlockAfterDelay)

FairSpecExit ==
    InitExit /\ [][NextExit]_vars /\ ExitFairness

\* the router and its monitor run, trading is allowed, and the position on
\* `symbol` is worth selling, has its book and has reached its take profit
\* or its stop loss
ExitDue(symbol) ==
    /\ is_running
    /\ Runs(position_monitor_task)
    /\ ~TradingHalted
    /\ positions[symbol].kind = "position"
    /\ orderbooks[symbol] # NoBook
    /\ ~SellBelowDust(symbol)
    /\ CheckPosition(symbol) \in {"take_profit", "stop_loss"}

\* the request of a SELL order for `symbol` is outstanding
SellSubmitted(symbol) ==
    /\ pc = "place"
    /\ signal.side = "Sell"
    /\ signal.symbol = symbol

\* C40: under fair scheduling, a held position that satisfies an exit
\* condition while the router runs, trading is allowed and the exchange
\* accepts orders is followed by a SELL order for it, unless the condition
\* ceases to hold
ExitLeadsToSell ==
    \A s \in Symbols :
        ExitDue(s) ~> (SellSubmitted(s) \/ ~ExitDue(s))

\* the monitor has found the take profit reached on ETHUSDT and has ended
\* its cycle there; no signal is queued and no order is outstanding
ExitFoundNothingQueued ==
    /\ last.op = "exit_monitor_cycle"
    /\ exit_checks["ETHUSDT"].outcome = "take_profit"
    /\ ExitDue("ETHUSDT")
    /\ signal_queue = << >>
    /\ pc = "get"
    /\ LockFree

====
